---- MODULE Spec2Model ----
(***************************************************************************)
(* Waterfall enrichment pipeline of app/ai/lead_finder.py                  *)
(* (EnrichmentPipeline.enrich_lead) with its three sources:                *)
(*   PRIMARY  AIArkScraper.enrich_company     tag "ai_ark"                 *)
(*   NETWORK  LinkedInScraper.scrape_profile  tag "linkedin"               *)
(*   AI       AILeadFinder.enrich_lead        tag "ai_enriched"            *)
(* Python dicts are functions whose DOMAIN is the set of keys present.     *)
(* Money is counted in micro-dollars (the code rounds to 6 decimals).      *)
(***************************************************************************)
EXTENDS Integers, Sequences, FiniteSets, TLC

\* ------------------------------------------------------------------ bounds
\* number of caller tasks that may hold a call of one pipeline instance
NumTasks == 2
\* number of enrich_lead calls made on the pipeline instance in one run
MaxCalls == 2

Tasks == 1 .. NumTasks

\* ------------------------------------------------------- Python primitives
None == "None"

\* truth value of a hint as `if x:` / `a or b` see it
Truthy(v) == v \notin {None, ""}

EmptyDict == [k \in {} |-> None]

\* dict.get(k)
Get(d, k) == IF k \in DOMAIN d THEN d[k] ELSE None

\* Faulty variant: only the keys d lacks are taken from p
UpdateMissingOnly(d, p) ==
    [k \in (DOMAIN d) \cup (DOMAIN p) |-> IF k \in DOMAIN d THEN d[k] ELSE p[k]]

\* dict.update(p)
Update(d, p) ==
    [k \in (DOMAIN d) \cup (DOMAIN p) |-> IF k \in DOMAIN p THEN p[k] ELSE d[k]]

\* d[k] = v
Put(d, k, v) == [x \in (DOMAIN d) \cup {k} |-> IF x = k THEN v ELSE d[x]]

\* ------------------------------------------------------------ input records
\* An input record: any mapping.  Each identity hint is absent, present with
\* value None (the API routes pass a database column that may be NULL) or
\* present with a value; a record that is itself an earlier outcome carries
\* a stale enrichment_cost / enrichment_source.
HintForms == {"absent", "none", "value"}
StaleCost == 2100

MkLead(n, d, l, stale) ==
    LET full == [company_name      |-> IF n = "value" THEN "Acme Corp" ELSE None,
                 company_domain    |-> IF d = "value" THEN "acme.com" ELSE None,
                 linkedin_url      |-> IF l = "value" THEN "https://linkedin.com/in/jane" ELSE None,
                 email             |-> "old@acme.com",
                 enrichment_source |-> "ai_enriched",
                 enrichment_cost   |-> StaleCost]
        present == {"email"}
                   \cup (IF n = "absent" THEN {} ELSE {"company_name"})
                   \cup (IF d = "absent" THEN {} ELSE {"company_domain"})
                   \cup (IF l = "absent" THEN {} ELSE {"linkedin_url"})
                   \cup (IF stale THEN {"enrichment_source", "enrichment_cost"} ELSE {})
    IN  [k \in present |-> full[k]]

Leads == { MkLead(n, d, l, s) : n \in HintForms, d \in {"absent", "value"},
                                l \in HintForms, s \in BOOLEAN }

Toggles == [use_ai_ark : BOOLEAN, use_linkedin : BOOLEAN, use_ai_finder : BOOLEAN]

DefaultToggles == [use_ai_ark |-> TRUE, use_linkedin |-> TRUE, use_ai_finder |-> TRUE]

\* ------------------------------------------------------- adapter behaviours
\* Exceptions an adapter can raise; all are subclasses of Exception:
\* ValueError (missing credentials, ai_ark.py:84, linkedin.py:234,
\* lead_finder.py:62), a transport error out of the HTTP client or the
\* Anthropic client, TypeError (a payload that is no mapping).
ExceptionKinds == {"ValueError", "TransportError", "TypeError"}
NoExc == "none"

\* LeadData.to_dict(): every key is always present, a field the source did
\* not deliver is None.  (The other ten keys of to_dict behave as these do.)
LeadDataToDict(email, linkedin, name, domain) ==
    [email |-> email, linkedin_url |-> linkedin,
     company_name |-> name, company_domain |-> domain]

ScraperPayloads ==
    { LeadDataToDict("jane@acme.com", None, "Acme Corp", None) }

NoPayload == EmptyDict

\* One use of `async with Scraper() as scraper: r = await scraper.lookup(..)`:
\*   open    the constructor and __aenter__ ("none" = no exception)
\*   call    enrich_company / scrape_profile ("none" = it returned)
\*   results the success flags of the returned ScraperResults, in order
\*           (scrape_profile returns None, modelled <<>>, or one result)
\*   data    results[0].data
\*   close   __aexit__, which runs whenever open succeeded
ScraperRun(open, call, results, data, close) ==
    [open |-> open, call |-> call, results |-> results, data |-> data, close |-> close]

\* AIArkScraper.scrape returns the parsed leads (all success=True, unparsable
\* ones dropped) or, when the search itself failed, one success=False result.
PrimaryResultShapes == { <<>>, <<FALSE>>, <<TRUE>>, <<TRUE, TRUE>> }

\* scrape_profile returns None, a failed result or a successful result.
NetworkResultShapes == { <<>>, <<FALSE>>, <<TRUE>> }

RunsOver(shapes) ==
    { ScraperRun(e, NoExc, <<>>, NoPayload, NoExc) : e \in ExceptionKinds }
    \cup { ScraperRun(NoExc, e, <<>>, NoPayload, c) :
              e \in ExceptionKinds, c \in {NoExc, "TransportError"} }
    \cup { ScraperRun(NoExc, NoExc, r, NoPayload, c) :
              r \in { x \in shapes : x = <<>> \/ ~x[1] }, c \in {NoExc, "TransportError"} }
    \cup { ScraperRun(NoExc, NoExc, r, d, c) :
              r \in { x \in shapes : x # <<>> /\ x[1] }, d \in ScraperPayloads,
              c \in {NoExc, "TransportError"} }

PrimaryRuns == RunsOver(PrimaryResultShapes)
NetworkRuns == RunsOver(NetworkResultShapes)

\* The exception that leaves the `async with` block: one raised by __aexit__
\* replaces the one the body raised.
Escaping(run) ==
    IF run.open # NoExc THEN run.open
    ELSE IF run.close # NoExc THEN run.close
    ELSE run.call

\* Faulty variant: a handler that names one exception class: `except ValueError:`
ExceptCatchesOnlyValueError(exc) == exc = "ValueError"

\* `except Exception as e:` (lead_finder.py:453, 471, 493)
ExceptCatches(exc) == exc \in ExceptionKinds

\* ---- AI adapter
\* AILeadFinder._estimate_cost for the default model (config.py:42, a Sonnet
\* model): $3 per 1M input tokens, $15 per 1M output tokens, in micro-dollars.
SonnetInputRate == 3
SonnetOutputRate == 15
EstimateCost(input_tokens, output_tokens) ==
    SonnetInputRate * input_tokens + SonnetOutputRate * output_tokens

TokenUsages == { <<700, 0>>, <<100, 20>> }

\* What the model answered under "enriched_data": nothing ({} is the default
\* of lead_finder.py:352), a mapping, or a JSON value that is no mapping.
AIEnrichedData ==
    { [shape |-> "empty",     data |-> EmptyDict],
      [shape |-> "mapping",   data |-> [email |-> "j@acme.com", enrichment_cost |-> 9,
                                        enrichment_source |-> "web",
                                        ai_reasoning |-> "title matches"]],
      [shape |-> "malformed", data |-> EmptyDict] }

\* The dict AILeadFinder.enrich_lead returns (lead_finder.py:351-361).
AIResults ==
    { [enriched_data |-> e, alternate_emails |-> <<"jane.d@acme.com">>,
       alternate_companies |-> <<>>, summary |-> "found via web search",
       cost_usd |-> EstimateCost(u[1], u[2])] :
         e \in AIEnrichedData, u \in TokenUsages }

\* One use of `await self.ai_finder.enrich_lead(...)`: it raises or returns.
AIRuns ==
    { [call |-> e, result |-> CHOOSE r \in AIResults : TRUE] : e \in ExceptionKinds }
    \cup { [call |-> NoExc, result |-> r] : r \in AIResults }

\* -------------------------------------------------------------------- state
VARIABLES
    stats,      \* EnrichmentPipeline.stats of the one pipeline instance
    calls,      \* number of enrich_lead calls started so far
    pc,         \* per task: position inside enrich_lead
    lead_data,  \* per task: the argument lead_data
    use,        \* per task: the arguments use_ai_ark, use_linkedin, use_ai_finder
    enriched,   \* per task: the local `enriched`
    source,     \* per task: the local `source`
    cost,       \* per task: the local `cost`
    trace,      \* per task (history): adapter events of this call, in order
    delta,      \* per task (history): what this call added to each counter
    leads,      \* the argument `leads` of enrich_leads_batch (<<>>: no batch)
    sem,        \* value of the asyncio.Semaphore of enrich_leads_batch
    quoted      \* per task (history): cost_usd of the non-empty payload the AI
                \* adapter returned in this call (0: it returned none)

Counters == {"total_enriched", "ai_ark_hits", "linkedin_hits", "ai_finder_hits",
             "failed", "total_cost"}

ZeroStats == [c \in Counters |-> 0]

Sources == <<"ai_ark", "linkedin", "ai_enriched">>

\* ---- enrich_leads_batch / asyncio.gather
VARIABLES
    concurrency,  \* the argument `concurrency` (0: no batch)
    batch,        \* "none", "running", "returned" or "raised": the batch call
    batch_out,    \* the list enrich_leads_batch returned
    order         \* (history) the tasks of the batch in the order they finished

gatherVars == <<concurrency, batch, batch_out, order>>

VARIABLES
    payload     \* per task (history): the data of the result that won

pipelineVars == <<stats, calls, pc, lead_data, use, enriched, source, cost, trace,
                  delta, leads, sem, quoted, payload, gatherVars>>

\* ---- RateLimiter (scrapers/base.py), one instance
VARIABLES
    now,                \* time.time(), in seconds
    interval,           \* RateLimiter.interval
    last_request_time,  \* RateLimiter.last_request_time
    lock,               \* holder of RateLimiter._lock (0: free)
    lpc,                \* per caller: position inside acquire()
    wake,               \* per caller: the time its asyncio.sleep ends
    grants              \* (history) the times at which acquire() returned

limiterVars == <<now, interval, last_request_time, lock, lpc, wake, grants>>

\* ---- BaseScraper._make_request (scrapers/base.py), one scraper session
VARIABLES
    rstats,     \* ScraperStats: total/successful/failed_requests, errors
    rcalls,     \* number of _make_request calls started so far
    rpc,        \* per caller: position inside _make_request and its retry loop
    attempt,    \* per caller: attempt_number of the retry state
    tries,      \* per caller (history): how each attempt of this call ended
    delays,     \* per caller (history): the waits scheduled between attempts
    outcome,    \* per caller: what the call gave its caller
    rdelta      \* per caller (history): what this call added to the stats

requestVars == <<rstats, rcalls, rpc, attempt, tries, delays, outcome, rdelta>>

\* ---- AILeadFinder cost tracking (ai/lead_finder.py), one instance
VARIABLES
    model,                \* AILeadFinder.model
    total_input_tokens,   \* AILeadFinder.total_input_tokens
    total_output_tokens,  \* AILeadFinder.total_output_tokens
    usages                \* (history) token usage of each completed API call

finderVars == <<model, total_input_tokens, total_output_tokens, usages>>

\* ---- adapter sessions (`async with Scraper(...)`), one per task
VARIABLES
    session,    \* per task: class and configuration of the scraper
    spc,        \* per task: position around the `async with` block
    client,     \* per task: BaseScraper._client ("none", "open", "closed")
    browser,    \* per task: WebsiteScraper._browser and its playwright driver
    left        \* per task: how the scope was left ("", "normal" or an exception)

sessionVars == <<session, spc, client, browser, left>>

\* ---- bulk scrape() of one AIArkScraper or LinkedInScraper, one call
VARIABLES
    scraper,            \* "ai_ark" or "linkedin": the class of the adapter
    scpc,               \* position inside scrape() and _poll_for_results()
    job,                \* (history) how the trigger request ended
    items,              \* (history) the items of the response that was parsed
    found,              \* the local `results`
    scrape_errors,      \* ScraperStats.errors of the adapter
    total_items_found,  \* ScraperStats.total_items_found of the adapter
    max_attempts,       \* the argument max_attempts of _poll_for_results
    poll_attempt,       \* the loop variable `attempt`
    poll_log            \* (history) the outcome of every poll made

scrapeVars == <<scraper, scpc, job, items, found, scrape_errors,
                total_items_found, max_attempts, poll_attempt, poll_log>>

\* ---- one AILeadFinder shared by the orchestrations of a batch
VARIABLES
    fpc,        \* per task: position inside _call_claude
    reply,      \* per task: message.usage of the response it received
    loaded,     \* per task: the totals it read for its `+=`
    ai_raised   \* (history) number of API calls that raised

sharedVars == <<fpc, reply, loaded, ai_raised>>

\* ---- GoogleMapsScraper._search_zip_code and WebsiteScraper._fetch_page,
\* which count their requests themselves; one adapter, sequential calls
VARIABLES
    variant,       \* "google_maps" or "website": the class of the adapter
    vpc,           \* position inside the call
    vstats,        \* ScraperStats of the adapter
    vcalls,        \* number of calls started so far
    places_left,   \* places of the search result not yet handled
    with_details   \* the argument include_details

variantVars == <<variant, vpc, vstats, vcalls, places_left, with_details>>

\* ---- _make_request behind the adapter's RateLimiter
VARIABLES
    sent        \* (history) the clock readings at which requests were sent

throttleVars == <<sent>>

\* the components added to the first four
moreVars == <<scrapeVars, sharedVars, variantVars, throttleVars>>

\* state of the other components, which the pipeline never touches
aux == <<limiterVars, requestVars, finderVars, sessionVars, moreVars>>

vars == <<pipelineVars, aux>>

\* The components at rest: the values their variables keep in a
\* specification that does not exercise them.
GatherIdle ==
    /\ concurrency = 0
    /\ batch = "none"
    /\ batch_out = <<>>
    /\ order = <<>>

LimiterIdle ==
    /\ now = 0
    /\ interval = 0
    /\ last_request_time = 0
    /\ lock = 0
    /\ lpc = [t \in Tasks |-> "idle"]
    /\ wake = [t \in Tasks |-> 0]
    /\ grants = <<>>

RequestCounters == {"total_requests", "successful_requests", "failed_requests"}

\* ScraperStats() (scrapers/base.py:41-50)
NewScraperStats ==
    [total_requests |-> 0, successful_requests |-> 0, failed_requests |-> 0,
     errors |-> <<>>]

ZeroRequestDelta == [c \in RequestCounters \cup {"errors"} |-> 0]

RequestIdle ==
    /\ rstats = NewScraperStats
    /\ rcalls = 0
    /\ rpc = [t \in Tasks |-> "idle"]
    /\ attempt = [t \in Tasks |-> 0]
    /\ tries = [t \in Tasks |-> <<>>]
    /\ delays = [t \in Tasks |-> <<>>]
    /\ outcome = [t \in Tasks |-> "none"]
    /\ rdelta = [t \in Tasks |-> ZeroRequestDelta]

FinderIdle ==
    /\ model = "claude-3-sonnet-20240229"
    /\ total_input_tokens = 0
    /\ total_output_tokens = 0
    /\ usages = <<>>

SessionIdle ==
    /\ session = [t \in Tasks |-> [class |-> "BaseScraper", api_key |-> TRUE,
                                    use_playwright |-> FALSE]]
    /\ spc = [t \in Tasks |-> "new"]
    /\ client = [t \in Tasks |-> "none"]
    /\ browser = [t \in Tasks |-> "none"]
    /\ left = [t \in Tasks |-> ""]

ScrapeIdle ==
    /\ scraper = "ai_ark"
    /\ scpc = "idle"
    /\ job = "none"
    /\ items = <<>>
    /\ found = <<>>
    /\ scrape_errors = <<>>
    /\ total_items_found = 0
    /\ max_attempts = 0
    /\ poll_attempt = 0
    /\ poll_log = <<>>

SharedIdle ==
    /\ fpc = [t \in Tasks |-> "idle"]
    /\ reply = [t \in Tasks |-> <<0, 0>>]
    /\ loaded = [t \in Tasks |-> <<0, 0>>]
    /\ ai_raised = 0

VariantIdle ==
    /\ variant = "website"
    /\ vpc = "idle"
    /\ vstats = NewScraperStats
    /\ vcalls = 0
    /\ places_left = 0
    /\ with_details = FALSE

ThrottleIdle == sent = <<>>

MoreIdle == ScrapeIdle /\ SharedIdle /\ VariantIdle /\ ThrottleIdle

AuxIdle == LimiterIdle /\ RequestIdle /\ FinderIdle /\ SessionIdle /\ MoreIdle

\* EnrichmentPipeline() with no call made yet
PipelineIdle ==
    /\ stats = ZeroStats
    /\ calls = 0
    /\ pc = [t \in Tasks |-> "idle"]
    /\ lead_data = [t \in Tasks |-> EmptyDict]
    /\ use = [t \in Tasks |-> DefaultToggles]
    /\ enriched = [t \in Tasks |-> EmptyDict]
    /\ source = [t \in Tasks |-> None]
    /\ cost = [t \in Tasks |-> 0]
    /\ trace = [t \in Tasks |-> <<>>]
    /\ delta = [t \in Tasks |-> ZeroStats]
    /\ leads = <<>>
    /\ sem = 0
    /\ quoted = [t \in Tasks |-> 0]
    /\ payload = [t \in Tasks |-> EmptyDict]
    /\ GatherIdle

\* Faulty variant: `=` written for `+=`
BumpAssign(st, counter, n) == [st EXCEPT ![counter] = n]

\* self.stats[counter] += n
Bump(st, counter, n) == [st EXCEPT ![counter] = @ + n]

\* EnrichmentPipeline.__init__
Init == PipelineIdle /\ AuxIdle

\* ------------------------------------------------------------- enrich_lead
\* Entry of enrich_lead (lead_finder.py:428-433).
Enter(t, ld, tg) ==
    /\ lead_data' = [lead_data EXCEPT ![t] = ld]
    /\ use' = [use EXCEPT ![t] = tg]
    /\ enriched' = [enriched EXCEPT ![t] = ld]
    /\ source' = [source EXCEPT ![t] = None]
    /\ cost' = [cost EXCEPT ![t] = 0]
    /\ trace' = [trace EXCEPT ![t] = <<>>]
    /\ delta' = [delta EXCEPT ![t] = ZeroStats]
    /\ quoted' = [quoted EXCEPT ![t] = 0]
    /\ payload' = [payload EXCEPT ![t] = EmptyDict]
    /\ calls' = calls + 1
    /\ pc' = [pc EXCEPT ![t] = "step1"]
    /\ UNCHANGED stats

\* A caller that awaits one call before it starts the next, as the loop of
\* run_enrichment in api/routes.py does; the record and the three toggles are
\* arguments of the public method and are drawn freely.
CallEnrichLead(t) ==
    /\ pc[t] = "idle"
    /\ \A u \in Tasks : pc[u] = "idle"
    /\ calls < MaxCalls
    /\ \E ld \in Leads, tg \in Toggles : Enter(t, ld, tg)
    /\ UNCHANGED <<leads, sem, gatherVars, aux>>

\* Faulty variant: step 1 without its toggle: `if company_name or company_domain:`
PrimaryEligibleIgnoresToggle(ld, tg) ==
    Truthy(Get(ld, "company_name")) \/ Truthy(Get(ld, "company_domain"))

\* `if use_ai_ark and (company_name or company_domain):`
PrimaryEligible(ld, tg) ==
    tg.use_ai_ark /\ (Truthy(Get(ld, "company_name")) \/ Truthy(Get(ld, "company_domain")))

\* Faulty variant: step 2 without the short-circuit: `if use_linkedin:`
NetworkEnabledNoShortCircuit(src, tg) == tg.use_linkedin

\* `if not source and use_linkedin:`
NetworkEnabled(src, tg) == src = None /\ tg.use_linkedin

\* Faulty variant: the scraper opened without looking at the hint
NetworkHintUnchecked(ld) == TRUE

\* `linkedin_url = lead_data.get("linkedin_url")`, `if linkedin_url:`
NetworkHint(ld) == Truthy(Get(ld, "linkedin_url"))

\* Faulty variant: step 3 without the short-circuit: `if use_ai_finder:`
AIEnabledNoShortCircuit(src, tg) == tg.use_ai_finder

\* `if not source and use_ai_finder:`
AIEnabled(src, tg) == src = None /\ tg.use_ai_finder

\* Faulty variant: `if results:`, the success flag not looked at
PrimaryWonAnyResult(results) == Len(results) > 0

\* `if results and results[0].success:`
PrimaryWon(results) == Len(results) > 0 /\ results[1]

\* `if result and result.success:`
NetworkWon(results) == Len(results) > 0 /\ results[1]

\* `if result.get("enriched_data"):`
AIWon(result) == result.enriched_data.shape # "empty"

\* The counter a winning scraper increments.
HitCounter(tag) == IF tag = "ai_ark" THEN "ai_ark_hits" ELSE "linkedin_hits"

\* The scraper returned, and its first result has success=True.
ReturnedSuccess(run) ==
    run.open = NoExc /\ run.call = NoExc /\ run.results # <<>> /\ run.results[1]

\* The events one scraper block leaves in the history: the adapter was
\* constructed, its lookup was called, the lookup returned a successful
\* result, an exception left the block.
ScraperEvents(tag, run) ==
    <<  <<"construct", tag>> >>
    \o (IF run.open = NoExc THEN << <<"call", tag>> >> ELSE <<>>)
    \o (IF ReturnedSuccess(run) THEN << <<"success", tag>> >> ELSE <<>>)
    \o (IF Escaping(run) # NoExc THEN << <<"raise", tag>> >> ELSE <<>>)

\* Faulty variant: `enriched = lead_data`, the local names the caller's dict
CallersRecordAliased(ld, local) == local

\* The caller's record after a step that wrote to `enriched`:
\* `enriched = lead_data.copy()` (lead_finder.py:428) made `enriched` a dict
\* of its own, and every write of enrich_lead is a key assignment or an
\* update on `enriched`; lead_data is only read (432-433, 460, 477).
CallersRecord(ld, local) == ld

\* One `try: async with Scraper() ...: ... except Exception` block
\* (lead_finder.py:437-454 and 458-472), `won` being the test on the result.
ScraperBlock(t, tag, run, won, next) ==
    /\ enriched' = [enriched EXCEPT ![t] = IF won THEN Update(@, run.data) ELSE @]
    /\ source' = [source EXCEPT ![t] = IF won THEN tag ELSE @]
    /\ stats' = IF won THEN Bump(stats, HitCounter(tag), 1) ELSE stats
    /\ delta' = [delta EXCEPT ![t] = IF won THEN Bump(@, HitCounter(tag), 1) ELSE @]
    /\ trace' = [trace EXCEPT ![t] = @ \o ScraperEvents(tag, run)]
    /\ pc' = [pc EXCEPT ![t] =
                IF Escaping(run) = NoExc \/ ExceptCatches(Escaping(run))
                THEN next ELSE "raised"]
    /\ payload' = [payload EXCEPT ![t] = IF won THEN run.data ELSE @]
    /\ lead_data' = [lead_data EXCEPT ![t] = CallersRecord(@, enriched'[t])]
    /\ UNCHANGED <<calls, use, cost, leads, sem, quoted, gatherVars, aux>>

Skip(t, next) ==
    /\ pc' = [pc EXCEPT ![t] = next]
    /\ UNCHANGED <<stats, calls, lead_data, use, enriched, source, cost, trace, delta,
                   leads, sem, quoted, payload, gatherVars, aux>>

\* Step 1: Try AI Ark (lead_finder.py:435-454)
Step1(t) ==
    /\ pc[t] = "step1"
    /\ IF PrimaryEligible(lead_data[t], use[t])
       THEN \E run \in PrimaryRuns :
              ScraperBlock(t, "ai_ark", run,
                           run.open = NoExc /\ run.call = NoExc /\ PrimaryWon(run.results),
                           "step2")
       ELSE Skip(t, "step2")

\* Step 2: Try LinkedIn/Bright Data (lead_finder.py:456-472)
Step2(t) ==
    /\ pc[t] = "step2"
    /\ IF NetworkEnabled(source[t], use[t]) /\ NetworkHint(lead_data[t])
       THEN \E run \in NetworkRuns :
              ScraperBlock(t, "linkedin", run,
                           run.open = NoExc /\ run.call = NoExc /\ NetworkWon(run.results),
                           "step3")
       ELSE Skip(t, "step3")

\* lead_finder.py:483-486
MergeAI(e, result) ==
    Put(Put(Put(Update(e, result.enriched_data.data),
                "alternate_emails", result.alternate_emails),
            "alternate_companies", result.alternate_companies),
        "ai_reasoning", result.summary)

\* Step 3: Use AI Lead Finder as last resort (lead_finder.py:474-494).
\* A truthy enriched_data that is no mapping makes enriched.update raise
\* before anything is assigned.
Step3(t) ==
    /\ pc[t] = "step3"
    /\ IF AIEnabled(source[t], use[t])
       THEN \E run \in AIRuns :
              LET returned == run.call = NoExc
                  won == returned /\ AIWon(run.result)
                         /\ run.result.enriched_data.shape = "mapping"
                  exc == IF ~returned THEN run.call
                         ELSE IF AIWon(run.result) /\ ~won THEN "TypeError"
                         ELSE NoExc
                  c == run.result.cost_usd
              IN
              /\ enriched' = [enriched EXCEPT ![t] = IF won THEN MergeAI(@, run.result) ELSE @]
              /\ source' = [source EXCEPT ![t] = IF won THEN "ai_enriched" ELSE @]
              /\ cost' = [cost EXCEPT ![t] = IF won THEN c ELSE @]
              /\ stats' = IF won THEN Bump(Bump(stats, "ai_finder_hits", 1), "total_cost", c)
                          ELSE stats
              /\ delta' = [delta EXCEPT ![t] =
                             IF won THEN Bump(Bump(@, "ai_finder_hits", 1), "total_cost", c)
                             ELSE @]
              /\ trace' = [trace EXCEPT ![t] =
                             @ \o << <<"call", "ai_enriched">> >>
                               \o (IF returned /\ run.result.enriched_data.shape = "mapping"
                                   THEN << <<"success", "ai_enriched">> >> ELSE <<>>)
                               \o (IF exc # NoExc THEN << <<"raise", "ai_enriched">> >> ELSE <<>>)]
              /\ payload' = [payload EXCEPT ![t] =
                               IF won THEN run.result.enriched_data.data ELSE @]
              /\ quoted' = [quoted EXCEPT ![t] =
                              IF returned /\ run.result.enriched_data.shape = "mapping"
                              THEN c ELSE @]
              /\ pc' = [pc EXCEPT ![t] =
                          IF exc = NoExc \/ ExceptCatches(exc) THEN "track" ELSE "raised"]
              /\ lead_data' = [lead_data EXCEPT ![t] = CallersRecord(@, enriched'[t])]
              /\ UNCHANGED <<calls, use, leads, sem, gatherVars, aux>>
       ELSE Skip(t, "track")

\* Faulty variant: `if not source:`
HasSourceInverted(src) == src = None

\* `if source:` (lead_finder.py:497)
HasSource(src) == src # None

\* Faulty variant: the failure branch returns `enriched` as it is
TrackEnrichedFailureUntouched(e, src, c) ==
    IF HasSource(src)
    THEN Put(Put(e, "enrichment_source", src), "enrichment_cost", c)
    ELSE e

\* Track results (lead_finder.py:496-505): the outcome that is returned.
TrackEnriched(e, src, c) ==
    IF HasSource(src)
    THEN Put(Put(e, "enrichment_source", src), "enrichment_cost", c)
    ELSE Put(e, "enrichment_source", None)

\* Faulty variant: only the two scrapers count as an enrichment
TrackCounterScrapersOnly(src) ==
    IF src \in {"ai_ark", "linkedin"} THEN "total_enriched" ELSE "failed"

\* `if source:` picks the counter that is incremented (lead_finder.py:497-502)
TrackCounter(src) == IF HasSource(src) THEN "total_enriched" ELSE "failed"

TrackResults(t) ==
    /\ pc[t] = "track"
    /\ enriched' = [enriched EXCEPT ![t] = TrackEnriched(@, source[t], cost[t])]
    /\ stats' = Bump(stats, TrackCounter(source[t]), 1)
    /\ delta' = [delta EXCEPT ![t] = Bump(@, TrackCounter(source[t]), 1)]
    /\ pc' = [pc EXCEPT ![t] = "done"]
    /\ lead_data' = [lead_data EXCEPT ![t] = CallersRecord(@, enriched'[t])]
    /\ UNCHANGED <<calls, use, source, cost, trace, leads, sem, quoted, payload,
                   gatherVars, aux>>

\* The caller takes the outcome; the task is free for the next call.
Return(t) ==
    /\ pc[t] = "done"
    /\ leads = <<>>
    /\ pc' = [pc EXCEPT ![t] = "idle"]
    /\ lead_data' = [lead_data EXCEPT ![t] = EmptyDict]
    /\ use' = [use EXCEPT ![t] = DefaultToggles]
    /\ enriched' = [enriched EXCEPT ![t] = EmptyDict]
    /\ source' = [source EXCEPT ![t] = None]
    /\ cost' = [cost EXCEPT ![t] = 0]
    /\ trace' = [trace EXCEPT ![t] = <<>>]
    /\ delta' = [delta EXCEPT ![t] = ZeroStats]
    /\ quoted' = [quoted EXCEPT ![t] = 0]
    /\ payload' = [payload EXCEPT ![t] = EmptyDict]
    /\ UNCHANGED <<stats, calls, leads, sem, gatherVars, aux>>

Next ==
    \E t \in Tasks :
        \/ CallEnrichLead(t)
        \/ Step1(t)
        \/ Step2(t)
        \/ Step3(t)
        \/ TrackResults(t)
        \/ Return(t)

Spec == Init /\ [][Next]_vars

\* ------------------------------------------------------ enrich_leads_batch
\* An element of `leads` that is no dict (None, a row object): the value is
\* represented by its class under the key "__class__".
NotAMapping == [k \in {"__class__"} |-> "NoneType"]

\* `lead_data.copy()` and `lead_data.get(..)` exist
IsMapping(ld) == "__class__" \notin DOMAIN ld

\* Records a batch is run on: one with PRIMARY's hints only, one with
\* NETWORK's hint only that is an earlier outcome, and one that is no dict.
BatchLeads == { MkLead("value", "value", "absent", FALSE),
                MkLead("none", "absent", "value", TRUE),
                NotAMapping }

\* enrich_leads_batch(leads, concurrency) on a fresh pipeline: one task per
\* lead is created, all wait on the semaphore (lead_finder.py:524-531).
InitBatch ==
    /\ stats = ZeroStats
    /\ calls = 0
    /\ pc = [t \in Tasks |-> "queued"]
    /\ lead_data = [t \in Tasks |-> EmptyDict]
    /\ use = [t \in Tasks |-> DefaultToggles]
    /\ enriched = [t \in Tasks |-> EmptyDict]
    /\ source = [t \in Tasks |-> None]
    /\ cost = [t \in Tasks |-> 0]
    /\ trace = [t \in Tasks |-> <<>>]
    /\ delta = [t \in Tasks |-> ZeroStats]
    /\ leads \in [Tasks -> BatchLeads]
    /\ concurrency \in 0 .. NumTasks
    /\ sem = concurrency
    /\ quoted = [t \in Tasks |-> 0]
    /\ payload = [t \in Tasks |-> EmptyDict]
    /\ batch = "running"
    /\ batch_out = <<>>
    /\ order = <<>>
    /\ AuxIdle

\* Faulty variant: the semaphore never blocks
SemFreeAlways(value) == TRUE

\* asyncio.Semaphore: acquire() passes without waiting while the value is
\* positive
SemFree(value) == value > 0

\* `async with semaphore:` entered, then `self.enrich_lead(lead)` with the
\* default toggles (lead_finder.py:527-528).  On a record that is no dict
\* `lead_data.copy()` (lead_finder.py:428) raises AttributeError outside every
\* try block: the exception leaves enrich_lead and the semaphore block before
\* anything is awaited, and the task ends with it.
SemAcquire(t) ==
    /\ pc[t] = "queued"
    /\ SemFree(sem)
    /\ IF IsMapping(leads[t])
       THEN /\ sem' = sem - 1
            /\ Enter(t, leads[t], DefaultToggles)
            /\ UNCHANGED <<leads, gatherVars, aux>>
       ELSE /\ pc' = [pc EXCEPT ![t] = "threw"]
            /\ calls' = calls + 1
            /\ order' = Append(order, t)
            /\ UNCHANGED <<stats, lead_data, use, enriched, source, cost, trace, delta,
                           leads, sem, quoted, payload, concurrency, batch, batch_out, aux>>

\* enrich_lead returned: the semaphore is released, the outcome (`enriched`)
\* is the task's result and the other locals of the call are gone.
SemRelease(t) ==
    /\ pc[t] = "done"
    /\ leads # <<>>
    /\ sem' = sem + 1
    /\ pc' = [pc EXCEPT ![t] = "finished"]
    /\ lead_data' = [lead_data EXCEPT ![t] = EmptyDict]
    /\ source' = [source EXCEPT ![t] = None]
    /\ cost' = [cost EXCEPT ![t] = 0]
    /\ trace' = [trace EXCEPT ![t] = <<>>]
    /\ delta' = [delta EXCEPT ![t] = ZeroStats]
    /\ quoted' = [quoted EXCEPT ![t] = 0]
    /\ payload' = [payload EXCEPT ![t] = EmptyDict]
    /\ order' = Append(order, t)
    /\ UNCHANGED <<stats, calls, use, enriched, leads, concurrency, batch, batch_out, aux>>

\* Faulty variant: the results collected in the order the tasks finished
GatherResultsAsCompleted(outs, finished) == [i \in DOMAIN finished |-> outs[finished[i]]]

\* asyncio.gather(*tasks): the results of the tasks in the order of `tasks`,
\* which is the order of `leads` (lead_finder.py:530-531)
GatherResults(outs, finished) == [i \in DOMAIN outs |-> outs[i]]

\* Every task has returned: gather gives the list of their results and
\* enrich_leads_batch returns it.
GatherReturn ==
    /\ batch = "running"
    /\ \A t \in Tasks : pc[t] = "finished"
    /\ batch' = "returned"
    /\ batch_out' = GatherResults(enriched, order)
    /\ UNCHANGED <<stats, calls, pc, lead_data, use, enriched, source, cost, trace,
                   delta, leads, sem, quoted, payload, concurrency, order, aux>>

\* A task has ended with an exception: gather (called without
\* return_exceptions) raises it in enrich_leads_batch, which has no handler;
\* the other tasks are not cancelled and run on.
GatherRaise ==
    /\ batch = "running"
    /\ \E t \in Tasks : pc[t] = "threw"
    /\ batch' = "raised"
    /\ UNCHANGED <<stats, calls, pc, lead_data, use, enriched, source, cost, trace,
                   delta, leads, sem, quoted, payload, concurrency, batch_out, order, aux>>

NextBatch ==
    \/ \E t \in Tasks :
          \/ SemAcquire(t)
          \/ Step1(t)
          \/ Step2(t)
          \/ Step3(t)
          \/ TrackResults(t)
          \/ SemRelease(t)
    \/ GatherReturn
    \/ GatherRaise

SpecBatch == InitBatch /\ [][NextBatch]_vars

\* The event loop runs a task that can run, and every adapter call returns
\* or raises: a step that is possible is eventually taken.
SpecBatchFair == SpecBatch /\ WF_vars(NextBatch)

\* ------------------------------------------------------------ RateLimiter
\* Time is counted in whole seconds.
SecondsPerMinute == 60

\* requests_per_minute: the defaults of config.py whose interval is a whole
\* number of seconds (60, 30) and a slower limiter passed as rate_limit
RateLimits == {20, 30, 60}

\* self.interval = 60.0 / requests_per_minute
IntervalOf(requests_per_minute) == SecondsPerMinute \div requests_per_minute

\* clock reading when the limiter is constructed, and the horizon of a run
StartTime == 3
MaxTime == 10
\* number of acquire() calls made on the limiter in one run
MaxGrants == 4

\* Faulty variant: the operands mixed up, `sleep(time_since_last)`
SleepForElapsed(time_since_last, iv) ==
    IF time_since_last < iv THEN time_since_last ELSE 0

\* `if time_since_last < self.interval: await asyncio.sleep(self.interval -
\* time_since_last)`: the length of the sleep, 0 when there is none
SleepFor(time_since_last, iv) ==
    IF time_since_last < iv THEN iv - time_since_last ELSE 0

othersOfLimiter == <<pipelineVars, requestVars, finderVars, sessionVars, moreVars>>

\* RateLimiter(requests_per_minute)
InitLimiter ==
    /\ PipelineIdle /\ RequestIdle /\ FinderIdle /\ SessionIdle /\ MoreIdle
    /\ now = StartTime
    /\ interval \in { IntervalOf(r) : r \in RateLimits }
    /\ last_request_time = 0
    /\ lock = 0
    /\ lpc = [c \in Tasks |-> "idle"]
    /\ wake = [c \in Tasks |-> 0]
    /\ grants = <<>>

\* a caller calls acquire() and queues for the lock
CallAcquire(c) ==
    /\ lpc[c] = "idle"
    /\ Len(grants) + Cardinality({ d \in Tasks : lpc[d] # "idle" }) < MaxGrants
    /\ lpc' = [lpc EXCEPT ![c] = "waiting"]
    /\ UNCHANGED <<now, interval, last_request_time, lock, wake, grants, othersOfLimiter>>

\* `async with self._lock:` entered; `now = time.time()` is read and the
\* sleep, if any, is started (base.py:76-80).  The lock stays held.
LockAcquire(c) ==
    /\ lpc[c] = "waiting"
    /\ lock = 0
    /\ lock' = c
    /\ wake' = [wake EXCEPT ![c] = now + SleepFor(now - last_request_time, interval)]
    /\ lpc' = [lpc EXCEPT ![c] = "sleeping"]
    /\ UNCHANGED <<now, interval, last_request_time, grants, othersOfLimiter>>

\* The sleep is over (not before its time, possibly after it):
\* `self.last_request_time = time.time()`, the lock is released and
\* acquire() returns (base.py:81).
Stamped(c) ==
    /\ lpc[c] = "sleeping"
    /\ lock = c
    /\ now >= wake[c]
    /\ last_request_time' = now
    /\ lock' = 0
    /\ grants' = Append(grants, now)
    /\ lpc' = [lpc EXCEPT ![c] = "idle"]
    /\ UNCHANGED <<now, interval, wake>>

Stamp(c) == Stamped(c) /\ UNCHANGED othersOfLimiter

\* the clock advances
Tick ==
    /\ now < MaxTime
    /\ now' = now + 1
    /\ UNCHANGED <<interval, last_request_time, lock, lpc, wake, grants, othersOfLimiter>>

NextLimiter ==
    \/ \E c \in Tasks : CallAcquire(c) \/ LockAcquire(c) \/ Stamp(c)
    \/ Tick

SpecLimiter == InitLimiter /\ [][NextLimiter]_vars

\* ------------------------------------------------ BaseScraper._make_request
\* stop_after_attempt(3)
MaxAttempts == 3
\* wait_exponential(multiplier=1, min=2, max=30), in seconds
WaitMultiplier == 1
WaitMin == 2
WaitMax == 30
\* number of _make_request calls made in one session
MaxRequests == 2

\* How one attempt ends: a response that passes raise_for_status, an
\* httpx.HTTPError (transport error, timeout, 4xx/5xx status), an
\* asyncio.TimeoutError, or another exception (RuntimeError of the `client`
\* property, an error of the arguments).
AttemptResults == {"ok", "HTTPError", "TimeoutError", "RuntimeError"}

\* Faulty variant: `retry=retry_if_exception_type(Exception)`
RetryableAnyException(exc) == TRUE

\* retry=retry_if_exception_type((httpx.HTTPError, asyncio.TimeoutError))
Retryable(exc) == exc \in {"HTTPError", "TimeoutError"}

\* stop=stop_after_attempt(3)
ShouldStop(attempt_number) == attempt_number >= MaxAttempts

MinOf(a, b) == IF a < b THEN a ELSE b
MaxOf(a, b) == IF a > b THEN a ELSE b

\* Faulty variant: `wait_exponential(multiplier=1, max=30)`, the floor left out
WaitExponentialNoFloor(attempt_number) ==
    MinOf(WaitMultiplier * 2 ^ (attempt_number - 1), WaitMax)

\* wait_exponential: multiplier * 2^(attempt_number - 1), clamped to [min, max]
WaitExponential(attempt_number) ==
    MaxOf(WaitMin, MinOf(WaitMultiplier * 2 ^ (attempt_number - 1), WaitMax))

\* `self.stats.total_requests += 1` and its like
Count(st, counter) == [st EXCEPT ![counter] = @ + 1]

\* Faulty variant: the failure is counted, its message is not kept
RecordFailureNoMessage(st, msg) == Count(st, "failed_requests")

\* `self.stats.failed_requests += 1; self.stats.errors.append(str(e))`
RecordFailure(st, msg) ==
    [Count(st, "failed_requests") EXCEPT !.errors = Append(@, msg)]

othersOfRequest == <<pipelineVars, limiterVars, finderVars, sessionVars, moreVars>>

\* A scraper inside its session, no request made yet (base.py:108-112).
InitRequest ==
    /\ PipelineIdle /\ LimiterIdle /\ FinderIdle /\ SessionIdle /\ MoreIdle
    /\ RequestIdle

\* a caller calls self.get / self.post: the retry loop starts its first attempt
CallMakeRequest(t) ==
    /\ rpc[t] \in {"idle", "done"}
    /\ rcalls < MaxRequests
    /\ rcalls' = rcalls + 1
    /\ rpc' = [rpc EXCEPT ![t] = "acquire"]
    /\ attempt' = [attempt EXCEPT ![t] = 1]
    /\ tries' = [tries EXCEPT ![t] = <<>>]
    /\ delays' = [delays EXCEPT ![t] = <<>>]
    /\ outcome' = [outcome EXCEPT ![t] = "none"]
    /\ rdelta' = [rdelta EXCEPT ![t] = ZeroRequestDelta]
    /\ UNCHANGED <<rstats, othersOfRequest>>

\* `await self.rate_limiter.acquire()` has returned:
\* `self.stats.total_requests += 1`, the request is sent (base.py:145-149)
Sending(t) ==
    /\ rstats' = Count(rstats, "total_requests")
    /\ rdelta' = [rdelta EXCEPT ![t] = Count(@, "total_requests")]
    /\ rpc' = [rpc EXCEPT ![t] = "sending"]
    /\ UNCHANGED <<rcalls, attempt, tries, delays, outcome>>

BeginAttempt(t) ==
    /\ rpc[t] = "acquire"
    /\ Sending(t)
    /\ UNCHANGED othersOfRequest

\* The attempt ends (base.py:149-156) and the retry decorator decides
\* (base.py:133-137): an exception it does not retry is raised as it is, after
\* the last attempt it raises its RetryError, else it schedules the wait.
Ending(t, results) ==
    /\ rpc[t] = "sending"
    /\ \E r \in results :
          /\ tries' = [tries EXCEPT ![t] = Append(@, r)]
          /\ IF r = "ok"
             THEN /\ rstats' = Count(rstats, "successful_requests")
                  /\ rdelta' = [rdelta EXCEPT ![t] = Count(@, "successful_requests")]
                  /\ outcome' = [outcome EXCEPT ![t] = "response"]
                  /\ rpc' = [rpc EXCEPT ![t] = "done"]
                  /\ UNCHANGED delays
             ELSE /\ rstats' = RecordFailure(rstats, r)
                  /\ rdelta' = [rdelta EXCEPT ![t] =
                                  [Count(@, "failed_requests") EXCEPT !["errors"] =
                                      @ + Len(rstats'.errors) - Len(rstats.errors)]]
                  /\ IF ~Retryable(r)
                     THEN /\ outcome' = [outcome EXCEPT ![t] = r]
                          /\ rpc' = [rpc EXCEPT ![t] = "done"]
                          /\ UNCHANGED delays
                     ELSE IF ShouldStop(attempt[t])
                     THEN /\ outcome' = [outcome EXCEPT ![t] = "RetryError"]
                          /\ rpc' = [rpc EXCEPT ![t] = "done"]
                          /\ UNCHANGED delays
                     ELSE /\ delays' = [delays EXCEPT ![t] =
                                          Append(@, WaitExponential(attempt[t]))]
                          /\ rpc' = [rpc EXCEPT ![t] = "backoff"]
                          /\ UNCHANGED outcome
    /\ UNCHANGED <<rcalls, attempt, othersOfRequest>>

EndAttempt(t) == Ending(t, AttemptResults)

\* Faulty variant: only the request is retried, not the wait on the limiter
AttemptEntryRetrySkipsLimiter(attempt_number) ==
    IF attempt_number > 1 THEN "granted" ELSE "acquire"

\* Where attempt n starts: the decorator wraps the whole function
\* (base.py:133-145), so every attempt starts at
\* `await self.rate_limiter.acquire()`.
AttemptEntry(attempt_number) == "acquire"

\* the wait is over: the next attempt calls the function again
Retry(t) ==
    /\ rpc[t] = "backoff"
    /\ attempt' = [attempt EXCEPT ![t] = @ + 1]
    /\ rpc' = [rpc EXCEPT ![t] = AttemptEntry(attempt[t] + 1)]
    /\ UNCHANGED <<rstats, rcalls, tries, delays, outcome, rdelta, othersOfRequest>>

NextRequest ==
    \E t \in Tasks :
        \/ CallMakeRequest(t)
        \/ BeginAttempt(t)
        \/ EndAttempt(t)
        \/ Retry(t)

SpecRequest == InitRequest /\ [][NextRequest]_vars

\* --------------------------------- _make_request behind the RateLimiter
\* The callers of one scraper share its RateLimiter (base.py:98).  An attempt
\* waits in acquire() as a caller of the limiter; when acquire() returns,
\* nothing is awaited up to `self.client.request(...)` (base.py:145-149), so
\* the clock does not advance between the two.  The wait between attempts
\* may end at any time.
\* the horizon of a run of the scraper's callers
MaxThrottledTime == 8

\* how an attempt ends here: with a response or with an error that is retried
ThrottledResults == {"ok", "HTTPError"}

othersOfThrottled == <<pipelineVars, finderVars, sessionVars, scrapeVars, sharedVars,
                      variantVars>>

InitThrottled ==
    /\ PipelineIdle /\ FinderIdle /\ SessionIdle
    /\ ScrapeIdle /\ SharedIdle /\ VariantIdle
    /\ RequestIdle
    /\ now = StartTime
    /\ interval \in { IntervalOf(r) : r \in RateLimits }
    /\ last_request_time = 0
    /\ lock = 0
    /\ lpc = [c \in Tasks |-> "idle"]
    /\ wake = [c \in Tasks |-> 0]
    /\ grants = <<>>
    /\ sent = <<>>

\* `await self.rate_limiter.acquire()` is called by an attempt
AttemptAcquires(t) ==
    /\ rpc[t] = "acquire"
    /\ CallAcquire(t)

\* acquire() returns to the attempt
AttemptGranted(t) ==
    /\ rpc[t] = "acquire"
    /\ Stamped(t)
    /\ rpc' = [rpc EXCEPT ![t] = "granted"]
    /\ UNCHANGED <<rstats, rcalls, attempt, tries, delays, outcome, rdelta, sent,
                   othersOfThrottled>>

\* `self.stats.total_requests += 1; await self.client.request(...)`
AttemptSends(t) ==
    /\ rpc[t] = "granted"
    /\ Sending(t)
    /\ sent' = Append(sent, now)
    /\ UNCHANGED <<limiterVars, othersOfThrottled>>

\* the clock advances, but not between acquire() and the request
ThrottledTick ==
    /\ \A t \in Tasks : rpc[t] # "granted"
    /\ now < MaxThrottledTime
    /\ Tick

NextThrottled ==
    \/ \E t \in Tasks :
          \/ CallMakeRequest(t)
          \/ AttemptAcquires(t)
          \/ LockAcquire(t)
          \/ AttemptGranted(t)
          \/ AttemptSends(t)
          \/ Ending(t, ThrottledResults)
          \/ Retry(t)
    \/ ThrottledTick

SpecThrottled == InitThrottled /\ [][NextThrottled]_vars

\* ------------------------------------------------- AILeadFinder cost tracking
\* number of API calls completed on the finder in one run
MaxAICalls == 3

\* models a finder is constructed with (config.py:42 is the default)
FinderModels == {"claude-3-sonnet-20240229", "claude-3-haiku-20240307"}

\* `"haiku" in self.model.lower()`
IsHaiku(m) == m = "claude-3-haiku-20240307"

\* Haiku: $0.25 per 1M input tokens, $1.25 per 1M output tokens, that is 1
\* and 5 quarters of a micro-dollar per token.
HaikuInputQuarters == 1
HaikuOutputQuarters == 5
QuartersPerMicro == 4

\* round(x, 6) of x = n/d micro-dollars: to the nearest micro-dollar.  A tie
\* goes to the even neighbour here; in the code the binary representation of
\* the float sum decides a tie, between the same two neighbours.
RoundToMicro(n, d) ==
    LET q == n \div d
        r == n % d
    IN  IF 2 * r < d THEN q
        ELSE IF 2 * r > d THEN q + 1
        ELSE IF q % 2 = 0 THEN q ELSE q + 1

\* AILeadFinder._estimate_cost (lead_finder.py:363-378), in micro-dollars
EstimateCostOf(m, input_tokens, output_tokens) ==
    IF IsHaiku(m)
    THEN RoundToMicro(HaikuInputQuarters * input_tokens
                        + HaikuOutputQuarters * output_tokens, QuartersPerMicro)
    ELSE EstimateCost(input_tokens, output_tokens)

\* AILeadFinder.get_total_cost (lead_finder.py:380-382)
GetTotalCost == EstimateCostOf(model, total_input_tokens, total_output_tokens)

\* message.usage of one API call: <<input_tokens, output_tokens>>
FinderUsages == TokenUsages \cup { <<1, 0>>, <<4, 1>> }

\* Faulty variant: `=` written for `+=`
AddTokensAssign(total, n) == n

\* `self.total_input_tokens += input_tokens` (lead_finder.py:93-94)
AddTokens(total, n) == total + n

othersOfFinder == <<pipelineVars, limiterVars, requestVars, sessionVars, moreVars>>

\* AILeadFinder(model=...)
InitFinder ==
    /\ PipelineIdle /\ LimiterIdle /\ RequestIdle /\ SessionIdle /\ MoreIdle
    /\ model \in FinderModels
    /\ total_input_tokens = 0
    /\ total_output_tokens = 0
    /\ usages = <<>>

\* _call_claude: messages.create returned a message; its usage is added to
\* the totals (lead_finder.py:83-94).  The client is synchronous: nothing is
\* awaited between the call and the two additions.
CallClaude ==
    /\ Len(usages) < MaxAICalls
    /\ \E u \in FinderUsages :
          /\ total_input_tokens' = AddTokens(total_input_tokens, u[1])
          /\ total_output_tokens' = AddTokens(total_output_tokens, u[2])
          /\ usages' = Append(usages, u)
    /\ UNCHANGED <<model, othersOfFinder>>

\* A finder is constructed anew (one per pipeline, lead_finder.py:399).
NewFinder ==
    /\ usages # <<>>
    /\ model' \in FinderModels
    /\ total_input_tokens' = 0
    /\ total_output_tokens' = 0
    /\ usages' = <<>>
    /\ UNCHANGED othersOfFinder

NextFinder == CallClaude \/ NewFinder

SpecFinder == InitFinder /\ [][NextFinder]_vars

\* --------------------------------------------------------- adapter sessions
\* The scrapers a session is opened on.  AIArkScraper and LinkedInScraper
\* inherit __aenter__ / __aexit__ from BaseScraper; GoogleMapsScraper
\* overrides __aenter__; WebsiteScraper overrides both.
\* api_key: the credentials the class asks for are set (api_key of AI Ark and
\* Google Maps, username and password of Bright Data).
SessionConfigs ==
    { [class |-> "BaseScraper", api_key |-> k, use_playwright |-> FALSE] : k \in BOOLEAN }
    \cup { [class |-> "GoogleMapsScraper", api_key |-> k, use_playwright |-> FALSE] :
              k \in BOOLEAN }
    \cup { [class |-> "WebsiteScraper", api_key |-> TRUE, use_playwright |-> u] :
              u \in BOOLEAN }

\* How starting playwright and launching chromium ends (website.py:93-99).
BrowserStarts == {"ok", "ImportError", "LaunchError"}

\* How `await self._browser.close()` ends (website.py:105).
BrowserCloses == {"ok", "CloseError"}

othersOfSession == <<pipelineVars, limiterVars, requestVars, finderVars, moreVars>>

InitSession ==
    /\ PipelineIdle /\ LimiterIdle /\ RequestIdle /\ FinderIdle /\ MoreIdle
    /\ session \in [Tasks -> SessionConfigs]
    /\ spc = [t \in Tasks |-> "unbuilt"]
    /\ client = [t \in Tasks |-> "none"]
    /\ browser = [t \in Tasks |-> "none"]
    /\ left = [t \in Tasks |-> ""]

\* What __init__ does about missing credentials: the constructors only store
\* `api_key or settings...` (ai_ark.py:41, linkedin.py:45-46,
\* google_maps.py:48); none of them tests the value.
ConstructorRaises(cfg) == FALSE

\* Scraper(...): the object is built
Construct(t) ==
    /\ spc[t] = "unbuilt"
    /\ spc' = [spc EXCEPT ![t] = IF ConstructorRaises(session[t])
                                 THEN "config_error" ELSE "new"]
    /\ UNCHANGED <<session, client, browser, left, othersOfSession>>

\* The scope is left by an exception out of __aenter__: `async with` does not
\* call __aexit__ then.
OpenRaises(t, exc) ==
    /\ spc' = [spc EXCEPT ![t] = "left"]
    /\ left' = [left EXCEPT ![t] = exc]

OpenDone(t) ==
    /\ spc' = [spc EXCEPT ![t] = "body"]
    /\ UNCHANGED left

\* `async with Scraper(...) as scraper:` runs __aenter__.
\* BaseScraper (base.py:108-112) creates the httpx.AsyncClient.
\* GoogleMapsScraper (google_maps.py:55-60) does that first and then raises
\* ValueError when it has no API key.  WebsiteScraper (website.py:89-101) does
\* that first and then, with use_playwright, starts the driver and launches
\* the browser; only an ImportError is handled.
OpenSession(t) ==
    /\ spc[t] = "new"
    /\ client' = [client EXCEPT ![t] = "open"]
    /\ CASE session[t].class = "BaseScraper" ->
              /\ OpenDone(t)
              /\ UNCHANGED <<browser, session>>
         [] session[t].class = "GoogleMapsScraper" ->
              /\ IF session[t].api_key THEN OpenDone(t) ELSE OpenRaises(t, "ValueError")
              /\ UNCHANGED <<browser, session>>
         [] session[t].class = "WebsiteScraper" ->
              IF session[t].use_playwright
              THEN \E r \in BrowserStarts :
                     CASE r = "ok" ->
                            /\ browser' = [browser EXCEPT ![t] = "open"]
                            /\ OpenDone(t)
                            /\ UNCHANGED session
                       [] r = "ImportError" ->
                            /\ session' = [session EXCEPT ![t].use_playwright = FALSE]
                            /\ OpenDone(t)
                            /\ UNCHANGED browser
                       [] r = "LaunchError" ->
                            /\ browser' = [browser EXCEPT ![t] = "driver"]
                            /\ OpenRaises(t, "LaunchError")
                            /\ UNCHANGED session
              ELSE /\ OpenDone(t)
                   /\ UNCHANGED <<browser, session>>
    /\ UNCHANGED othersOfSession

\* the body of the `async with` block ends, normally or with an exception
BodyEnds(t) ==
    /\ spc[t] = "body"
    /\ \E e \in {"normal"} \cup ExceptionKinds : left' = [left EXCEPT ![t] = e]
    /\ spc' = [spc EXCEPT ![t] = "closing"]
    /\ UNCHANGED <<session, client, browser, othersOfSession>>

\* __aexit__.  BaseScraper (base.py:114-118): `if self._client: await
\* self._client.aclose()`.  WebsiteScraper (website.py:103-107) first closes
\* the browser, if there is one, and stops the driver, then calls the base
\* method; nothing is in a try/finally, so an exception out of
\* browser.close() skips the rest.
CloseSession(t) ==
    /\ spc[t] = "closing"
    /\ spc' = [spc EXCEPT ![t] = "left"]
    /\ IF session[t].class = "WebsiteScraper" /\ browser[t] = "open"
       THEN \E r \in BrowserCloses :
              IF r = "ok"
              THEN /\ browser' = [browser EXCEPT ![t] = "closed"]
                   /\ client' = [client EXCEPT ![t] = "closed"]
                   /\ UNCHANGED left
              ELSE /\ left' = [left EXCEPT ![t] = r]
                   /\ UNCHANGED <<browser, client>>
       ELSE /\ client' = [client EXCEPT ![t] = IF @ = "open" THEN "closed" ELSE @]
            /\ UNCHANGED <<browser, left>>
    /\ UNCHANGED <<session, othersOfSession>>

NextSession ==
    \E t \in Tasks :
        \/ Construct(t)
        \/ OpenSession(t)
        \/ BodyEnds(t)
        \/ CloseSession(t)

SpecSession == InitSession /\ [][NextSession]_vars

\* ------------------------------------- one AILeadFinder shared in a batch
\* The orchestrations of one enrich_leads_batch call all use
\* self.ai_finder (lead_finder.py:399, 471).  Each task runs _call_claude
\* (lead_finder.py:66-123) in four steps: it enters, messages.create returns
\* or raises, the totals are read, the totals are written.

\* Faulty variant: the response is awaited, so other tasks run in between
RunnableAlways(t) == TRUE

\* asyncio runs one coroutine until it awaits.  messages.create is the
\* synchronous client (lead_finder.py:81-83) and nothing between the entry
\* of _call_claude and its return is awaited, so while a task is inside, no
\* other task takes a step.
Runnable(t) == \A u \in Tasks \ {t} : fpc[u] \notin {"create", "load", "store"}

othersOfShared == <<pipelineVars, limiterVars, requestVars, sessionVars, scrapeVars,
                   variantVars, throttleVars>>

\* One AILeadFinder(model=...) and a batch whose orchestrations reached step 3
InitShared ==
    /\ PipelineIdle /\ LimiterIdle /\ RequestIdle /\ SessionIdle /\ ScrapeIdle
    /\ VariantIdle /\ ThrottleIdle
    /\ model \in FinderModels
    /\ total_input_tokens = 0
    /\ total_output_tokens = 0
    /\ usages = <<>>
    /\ SharedIdle

\* `result = await self._call_claude(prompt, ...)`: the task of a record not
\* yet served enters; at most MaxAICalls API calls are made in a run.
EnterClaude(t) ==
    /\ fpc[t] \in {"idle", "done", "raised"}
    /\ Runnable(t)
    /\ Len(usages) + ai_raised
         + Cardinality({ u \in Tasks : fpc[u] = "create" }) < MaxAICalls
    /\ fpc' = [fpc EXCEPT ![t] = "create"]
    /\ UNCHANGED <<reply, loaded, ai_raised, finderVars, othersOfShared>>

\* self.client.messages.create(...) returns a message with its usage, or
\* raises (no API key, an API error); `except Exception: raise` passes it on.
Create(t) ==
    /\ fpc[t] = "create"
    /\ Runnable(t)
    /\ \/ \E u \in FinderUsages :
             /\ reply' = [reply EXCEPT ![t] = u]
             /\ usages' = Append(usages, u)
             /\ fpc' = [fpc EXCEPT ![t] = "load"]
             /\ UNCHANGED ai_raised
       \/ /\ ai_raised' = ai_raised + 1
          /\ fpc' = [fpc EXCEPT ![t] = "raised"]
          /\ UNCHANGED <<reply, usages>>
    /\ UNCHANGED <<loaded, model, total_input_tokens, total_output_tokens,
                   othersOfShared>>

\* the read of `self.total_input_tokens += ...` and of the line after it
Load(t) ==
    /\ fpc[t] = "load"
    /\ Runnable(t)
    /\ loaded' = [loaded EXCEPT ![t] = <<total_input_tokens, total_output_tokens>>]
    /\ fpc' = [fpc EXCEPT ![t] = "store"]
    /\ UNCHANGED <<reply, ai_raised, finderVars, othersOfShared>>

\* the write of the two `+=`; _call_claude then returns
Store(t) ==
    /\ fpc[t] = "store"
    /\ Runnable(t)
    /\ total_input_tokens' = AddTokens(loaded[t][1], reply[t][1])
    /\ total_output_tokens' = AddTokens(loaded[t][2], reply[t][2])
    /\ fpc' = [fpc EXCEPT ![t] = "done"]
    /\ UNCHANGED <<reply, loaded, ai_raised, model, usages, othersOfShared>>

NextShared ==
    \E t \in Tasks :
        \/ EnterClaude(t)
        \/ Create(t)
        \/ Load(t)
        \/ Store(t)

SpecShared == InitShared /\ [][NextShared]_vars

\* ------------------------------------------------- bulk scrape and polling
\* AIArkScraper.scrape (ai_ark.py:44-146), LinkedInScraper.scrape
\* (linkedin.py:48-167) and LinkedInScraper._poll_for_results
\* (linkedin.py:169-221).  An item of a response is "good" when parse_result
\* and to_dict return for it and "bad" when one of them raises.
MaxItems == 3
MaxPollAttempts == 3

ItemLists == UNION { [1..n -> {"good", "bad"}] : n \in 0..MaxItems }

\* ScraperResult(success=True, data=lead.to_dict(), ...) of the i-th item
Parsed(i) == [success |-> TRUE, data |-> i, error |-> "None"]

\* ScraperResult(success=False, error=...)
FailedResult(msg) == [success |-> FALSE, data |-> 0, error |-> msg]

\* The parse loop, from the i-th item on: a good item appends its result, a
\* bad item appends nothing to the results (the except branch only logs and
\* records a message).
RECURSIVE ParseFrom(_, _)
ParseFrom(its, i) ==
    IF i > Len(its) THEN <<>>
    ELSE IF its[i] = "good" THEN <<Parsed(i)>> \o ParseFrom(its, i + 1)
    ELSE ParseFrom(its, i + 1)

\* `self.stats.errors.append(str(e))` of the parse loop in scrape()
RECURSIVE ParseErrorsFrom(_, _)
ParseErrorsFrom(its, i) ==
    IF i > Len(its) THEN <<>>
    ELSE IF its[i] = "bad" THEN <<"parse error">> \o ParseErrorsFrom(its, i + 1)
    ELSE ParseErrorsFrom(its, i + 1)

\* `len([r for r in results if r.success])`
Successes(rs) == Cardinality({ i \in DOMAIN rs : rs[i].success })

\* What the trigger request can come back with: it raised (after the
\* retries of _make_request, or in response.json()), it carried the items,
\* or (Bright Data only) it carried a snapshot_id.
PostOutcomes(cls) ==
    {"raise", "items"} \cup (IF cls = "linkedin" THEN {"snapshot"} ELSE {})

\* What one poll can come back with
PollOutcomes == {"ready", "failed", "pending", "raise"}

\* Faulty variant: the loop runs for attempt = 0 .. max_attempts
InRangeInclusive(a, m) == a <= m

\* `for attempt in range(max_attempts)`: the loop body runs for this value
InRange(a, m) == a < m

othersOfScrape == <<pipelineVars, limiterVars, requestVars, finderVars, sessionVars,
                   sharedVars, variantVars, throttleVars>>

\* A scraper with its credentials, inside its session, before scrape()
InitScrape ==
    /\ PipelineIdle /\ LimiterIdle /\ RequestIdle /\ FinderIdle /\ SessionIdle
    /\ SharedIdle /\ VariantIdle /\ ThrottleIdle
    /\ scraper \in {"ai_ark", "linkedin"}
    /\ max_attempts \in 0..MaxPollAttempts
    /\ scpc = "idle"
    /\ job = "none"
    /\ items = <<>>
    /\ found = <<>>
    /\ scrape_errors = <<>>
    /\ total_items_found = 0
    /\ poll_attempt = 0
    /\ poll_log = <<>>

\* scrape(...) is called: `results = []` and the trigger request is sent
CallScrape ==
    /\ scpc = "idle"
    /\ scpc' = "post"
    /\ found' = <<>>
    /\ UNCHANGED <<scraper, job, items, scrape_errors, total_items_found,
                   max_attempts, poll_attempt, poll_log, othersOfScrape>>

\* The trigger request comes back; with items the parse loop runs and
\* scrape() returns.
PostReturns ==
    /\ scpc = "post"
    /\ \E o \in PostOutcomes(scraper), its \in ItemLists :
        /\ job' = o
        /\ CASE o = "raise" ->
                 /\ its = <<>>
                 /\ found' = Append(found, FailedResult("request failed"))
                 /\ scpc' = "returned"
                 /\ UNCHANGED <<items, scrape_errors, total_items_found>>
             [] o = "items" ->
                 /\ items' = its
                 /\ found' = found \o ParseFrom(its, 1)
                 /\ scrape_errors' = scrape_errors \o ParseErrorsFrom(its, 1)
                 /\ total_items_found' = Successes(found')
                 /\ scpc' = "returned"
             [] o = "snapshot" ->
                 /\ its = <<>>
                 /\ scpc' = "polling"
                 /\ UNCHANGED <<items, found, scrape_errors, total_items_found>>
    /\ UNCHANGED <<scraper, max_attempts, poll_attempt, poll_log, othersOfScrape>>

\* One pass of the polling loop: the status request and what follows it up to
\* the return or the sleep.  The parse loop of a ready job records nothing in
\* stats.errors.  scrape() then counts the successes.
Poll ==
    /\ scpc = "polling"
    /\ InRange(poll_attempt, max_attempts)
    /\ \E o \in PollOutcomes, its \in ItemLists :
        /\ poll_log' = Append(poll_log, o)
        /\ CASE o = "ready" ->
                 /\ items' = its
                 /\ found' = ParseFrom(its, 1)
                 /\ total_items_found' = Successes(found')
                 /\ scpc' = "returned"
             [] o = "failed" ->
                 /\ its = <<>>
                 /\ found' = <<FailedResult("job failed")>>
                 /\ total_items_found' = Successes(found')
                 /\ scpc' = "returned"
                 /\ UNCHANGED items
             [] OTHER ->
                 /\ its = <<>>
                 /\ scpc' = "sleeping"
                 /\ UNCHANGED <<items, found, total_items_found>>
    /\ UNCHANGED <<scraper, job, scrape_errors, max_attempts, poll_attempt,
                   othersOfScrape>>

\* `await asyncio.sleep(poll_interval)` is over: the next value of the loop
Wake ==
    /\ scpc = "sleeping"
    /\ scpc' = "polling"
    /\ poll_attempt' = poll_attempt + 1
    /\ UNCHANGED <<scraper, job, items, found, scrape_errors, total_items_found,
                   max_attempts, poll_log, othersOfScrape>>

\* The loop is exhausted: `return [ScraperResult(success=False,
\* error="Polling timeout")]`
PollTimeout ==
    /\ scpc = "polling"
    /\ ~InRange(poll_attempt, max_attempts)
    /\ found' = <<FailedResult("Polling timeout")>>
    /\ total_items_found' = Successes(found')
    /\ scpc' = "returned"
    /\ UNCHANGED <<scraper, job, items, scrape_errors, max_attempts, poll_attempt,
                   poll_log, othersOfScrape>>

NextScrape ==
    \/ CallScrape
    \/ PostReturns
    \/ Poll
    \/ Wake
    \/ PollTimeout

SpecScrape == InitScrape /\ [][NextScrape]_vars

\* The event loop runs a coroutine that can run: a request returns or
\* raises (the client has a timeout), and a sleep ends.
SpecScrapeFair == SpecScrape /\ WF_vars(NextScrape)

\* ------------------------------------ adapters that count their own requests
\* GoogleMapsScraper._search_zip_code (google_maps.py:134-207) and
\* WebsiteScraper._fetch_page (website.py:237-272) do not go through
\* _make_request; each counts its requests in its own ScraperStats.
MaxVariantCalls == 2
MaxPlaces == 2

\* `self.stats.errors.append(str(e))` alone, as the handler of the per-place
\* block does (google_maps.py:198-200)
RecordMessage(st, msg) == [st EXCEPT !.errors = Append(@, msg)]

othersOfVariant == <<pipelineVars, limiterVars, requestVars, finderVars, sessionVars,
                    scrapeVars, sharedVars, throttleVars>>

\* A scraper inside its session, before its first call
InitVariant ==
    /\ PipelineIdle /\ LimiterIdle /\ RequestIdle /\ FinderIdle /\ SessionIdle
    /\ ScrapeIdle /\ SharedIdle /\ ThrottleIdle
    /\ variant \in {"google_maps", "website"}
    /\ vpc = "idle"
    /\ vstats = NewScraperStats
    /\ vcalls = 0
    /\ places_left = 0
    /\ with_details = FALSE

\* _search_zip_code / _fetch_page is called: the limiter is passed,
\* `self.stats.total_requests += 1`, and the request is made
\* (google_maps.py:146-161, website.py:239-265)
CallVariant ==
    /\ vpc \in {"idle", "returned", "raised"}
    /\ vcalls < MaxVariantCalls
    /\ vcalls' = vcalls + 1
    /\ vstats' = Count(vstats, "total_requests")
    /\ places_left' = 0
    /\ IF variant = "google_maps"
       THEN vpc' = "searching" /\ with_details' \in BOOLEAN
       ELSE vpc' = "fetching" /\ with_details' = FALSE
    /\ UNCHANGED <<variant, othersOfVariant>>

\* The page fetch ends (website.py:264-272): the handler counts the failure
\* and keeps no message.
FetchEnds ==
    /\ vpc = "fetching"
    /\ \/ /\ vstats' = Count(vstats, "successful_requests")
          /\ vpc' = "returned"
       \/ /\ vstats' = Count(vstats, "failed_requests")
          /\ vpc' = "raised"
    /\ UNCHANGED <<variant, vcalls, places_left, with_details, othersOfVariant>>

\* The place search ends (google_maps.py:155-164, 202-205): with its places,
\* or with an exception that the outer handler counts and raises again.
SearchEnds ==
    /\ vpc = "searching"
    /\ \/ \E n \in 0..MaxPlaces :
             /\ vstats' = Count(vstats, "successful_requests")
             /\ places_left' = n
             /\ vpc' = "places"
       \/ /\ vstats' = RecordFailure(vstats, "search failed")
          /\ vpc' = "raised"
          /\ UNCHANGED places_left
    /\ UNCHANGED <<variant, vcalls, with_details, othersOfVariant>>

\* The loop over the places (google_maps.py:166-200): after the last place
\* the call returns; a place whose details are wanted and that has a
\* place_id starts its details request, after `self.stats.total_requests +=
\* 1`; any other place is parsed, a parse error leaving a message.
NextPlace ==
    /\ vpc = "places"
    /\ IF places_left = 0
       THEN /\ vpc' = "returned"
            /\ UNCHANGED <<vstats, places_left>>
       ELSE \E has_place_id \in BOOLEAN :
              IF with_details /\ has_place_id
              THEN /\ vstats' = Count(vstats, "total_requests")
                   /\ vpc' = "detailing"
                   /\ UNCHANGED places_left
              ELSE /\ \/ UNCHANGED vstats
                      \/ vstats' = RecordMessage(vstats, "parse error")
                   /\ places_left' = places_left - 1
                   /\ UNCHANGED vpc
    /\ UNCHANGED <<variant, vcalls, with_details, othersOfVariant>>

\* The details request ends (google_maps.py:173-200): a result is counted as
\* a success; an exception is caught by the handler of the per-place block,
\* which logs it and keeps its message; the loop goes on.
DetailEnds ==
    /\ vpc = "detailing"
    /\ \/ vstats' = Count(vstats, "successful_requests")
       \/ vstats' = RecordMessage(vstats, "details failed")
    /\ places_left' = places_left - 1
    /\ vpc' = "places"
    /\ UNCHANGED <<variant, vcalls, with_details, othersOfVariant>>

NextVariant ==
    \/ CallVariant
    \/ FetchEnds
    \/ SearchEnds
    \/ NextPlace
    \/ DetailEnds

SpecVariant == InitVariant /\ [][NextVariant]_vars

\* ------------------------------------------------------------- properties
\* Reading the history of the call task t is in.
Happened(t, ev, tag) == \E i \in DOMAIN trace[t] : trace[t][i] = <<ev, tag>>
Times(t, ev, tag) == Cardinality({ i \in DOMAIN trace[t] : trace[t][i] = <<ev, tag>> })

\* the adapter's lookup was called / the adapter was constructed or called
Invoked(t, tag) == Happened(t, "call", tag)
Attempted(t, tag) == Happened(t, "construct", tag) \/ Happened(t, "call", tag)
Succeeded(t, tag) == Happened(t, "success", tag)
Raised(t, tag) == Happened(t, "raise", tag)

\* the key is in the record with a usable value
HasValue(ld, k) == k \in DOMAIN ld /\ ld[k] \notin {None, ""}

InCall(t) == pc[t] \in {"step1", "step2", "step3", "track"}
Returned(t) == pc[t] = "done"

\* C1: whenever the PRIMARY adapter returned a first result with success=true,
\* the NETWORK adapter and the AI adapter are not invoked at any point of that
\* call, and the outcome the call returns has enrichment_source = "ai_ark".
C1_PrimaryWinShortCircuits ==
    \A t \in Tasks :
        Succeeded(t, "ai_ark") =>
            /\ ~Attempted(t, "linkedin")
            /\ ~Attempted(t, "ai_enriched")
            /\ Returned(t) =>
                  /\ "enrichment_source" \in DOMAIN enriched[t]
                  /\ enriched[t]["enrichment_source"] = "ai_ark"

\* C1 witness: a returned call in which PRIMARY won although NETWORK and AI
\* were enabled and the record carried NETWORK's hint.
C1_Witness ==
    \E t \in Tasks :
        /\ Returned(t)
        /\ Succeeded(t, "ai_ark")
        /\ use[t] = DefaultToggles
        /\ HasValue(lead_data[t], "linkedin_url")

\* ---- C2
\* The source that is next in priority order after `tag`, enabled and
\* eligible for the call of task t ("nothing" when there is none).
NextAfter(t, tag) ==
    IF tag = "ai_ark" /\ use[t].use_linkedin /\ HasValue(lead_data[t], "linkedin_url")
    THEN "linkedin"
    ELSE IF tag \in {"ai_ark", "linkedin"} /\ use[t].use_ai_finder
    THEN "ai_enriched"
    ELSE "nothing"

Rank(tag) == CHOOSE i \in 1 .. 3 : Sources[i] = tag

OutcomeSource(t) == Get(enriched[t], "enrichment_source")

\* C2 (as claimed): an exception out of any source's block, the opening and
\* the closing of its session included, never leaves enrich_lead, the source
\* counts as a miss, and the next enabled and eligible source is attempted.
C2_RaiseIsAlwaysMiss ==
    \A t \in Tasks :
        /\ pc[t] # "raised"
        /\ Returned(t) =>
              \A i \in 1 .. 3 :
                  Raised(t, Sources[i]) =>
                      /\ OutcomeSource(t) # Sources[i]
                      /\ NextAfter(t, Sources[i]) # "nothing"
                            => Attempted(t, NextAfter(t, Sources[i]))

\* C2 (amended): an exception out of any source's block never leaves
\* enrich_lead.  If the source had not returned a successful result, it counts
\* as a miss and the next enabled and eligible source is attempted; if it had
\* (the exception came from closing the session), the source stays the winner
\* and no later source is attempted.
C2_RaiseIsMissUnlessAlreadyWon ==
    \A t \in Tasks :
        /\ pc[t] # "raised"
        /\ Returned(t) =>
              \A i \in 1 .. 3 :
                  Raised(t, Sources[i]) =>
                      IF Succeeded(t, Sources[i])
                      THEN /\ OutcomeSource(t) = Sources[i]
                           /\ \A j \in 1 .. 3 : j > i => ~Attempted(t, Sources[j])
                      ELSE /\ OutcomeSource(t) # Sources[i]
                           /\ NextAfter(t, Sources[i]) # "nothing"
                                 => Attempted(t, NextAfter(t, Sources[i]))

\* C2 witness: PRIMARY raised without a result, NETWORK was attempted and
\* raised too, and AI was still called.
C2_Witness ==
    \E t \in Tasks :
        /\ Returned(t)
        /\ Raised(t, "ai_ark") /\ ~Succeeded(t, "ai_ark")
        /\ Raised(t, "linkedin") /\ ~Succeeded(t, "linkedin")
        /\ Invoked(t, "ai_enriched")

\* C3: with all sources enabled, when PRIMARY has not delivered a successful
\* result and the record has no linkedin_url, the NETWORK adapter is neither
\* constructed nor called and the AI adapter is called exactly once.
C3_NetworkSkippedWithoutHint ==
    \A t \in Tasks :
        ( /\ use[t] = DefaultToggles
          /\ ~HasValue(lead_data[t], "linkedin_url")
          /\ ~Succeeded(t, "ai_ark") )
        => /\ ~Attempted(t, "linkedin")
           /\ Times(t, "call", "ai_enriched") <= 1
           /\ pc[t] \in {"track", "done"} => Times(t, "call", "ai_enriched") = 1

\* C3 witness: PRIMARY raised, the record has no linkedin_url, AI was called.
C3_Witness ==
    \E t \in Tasks :
        /\ Returned(t)
        /\ use[t] = DefaultToggles
        /\ ~HasValue(lead_data[t], "linkedin_url")
        /\ Raised(t, "ai_ark") /\ ~Succeeded(t, "ai_ark")
        /\ Times(t, "call", "ai_enriched") = 1

\* ---- C4
AllMissed(t) == \A i \in 1 .. 3 : ~Succeeded(t, Sources[i])

\* C4: when sources were tried and every one of them missed, the returned
\* outcome has enrichment_source None and enrichment_cost 0, and the call
\* added one to `failed` and nothing to any other counter.
C4_AllMissOutcome ==
    \A t \in Tasks :
        (Returned(t) /\ AllMissed(t) /\ \E i \in 1 .. 3 : Attempted(t, Sources[i])) =>
            /\ "enrichment_source" \in DOMAIN enriched[t]
            /\ enriched[t]["enrichment_source"] = None
            /\ "enrichment_cost" \in DOMAIN enriched[t]
            /\ enriched[t]["enrichment_cost"] = 0
            /\ delta[t] = [ZeroStats EXCEPT !["failed"] = 1]

\* C5: the sources of one call are attempted in the order PRIMARY, NETWORK, AI,
\* each at most once; after a source has returned a successful result no other
\* source is attempted; at most one hit is counted for the call.
C5_InOrderOnceShortCircuit ==
    \A t \in Tasks :
        /\ \A i, j \in DOMAIN trace[t] :
              i < j => Rank(trace[t][i][2]) <= Rank(trace[t][j][2])
        /\ \A i \in 1 .. 3 :
              /\ Times(t, "construct", Sources[i]) <= 1
              /\ Times(t, "call", Sources[i]) <= 1
        /\ \A i, j \in DOMAIN trace[t] :
              (i < j /\ trace[t][i][1] = "success")
                  => trace[t][j][1] \notin {"construct", "call", "success"}
        /\ delta[t]["ai_ark_hits"] + delta[t]["linkedin_hits"] + delta[t]["ai_finder_hits"] <= 1

\* C5 witness: all three sources were called, in order, and the last one won.
C5_Witness ==
    \E t \in Tasks :
        /\ Returned(t)
        /\ Invoked(t, "ai_ark") /\ Invoked(t, "linkedin") /\ Invoked(t, "ai_enriched")
        /\ Succeeded(t, "ai_enriched")
        /\ delta[t]["ai_finder_hits"] = 1

\* C6: a source is attempted only if its toggle is on and its hint is in the
\* record: company_name or company_domain for PRIMARY, linkedin_url for
\* NETWORK, nothing for AI.
C6_OnlyEnabledAndEligible ==
    \A t \in Tasks :
        /\ Attempted(t, "ai_ark") =>
              /\ use[t].use_ai_ark
              /\ HasValue(lead_data[t], "company_name") \/ HasValue(lead_data[t], "company_domain")
        /\ Attempted(t, "linkedin") =>
              /\ use[t].use_linkedin
              /\ HasValue(lead_data[t], "linkedin_url")
        /\ Attempted(t, "ai_enriched") => use[t].use_ai_finder

\* C6 witness: a call with every hint in the record and all toggles off has
\* returned without any adapter event.
C6_Witness ==
    \E t \in Tasks :
        /\ Returned(t)
        /\ ~use[t].use_ai_ark /\ ~use[t].use_linkedin /\ ~use[t].use_ai_finder
        /\ HasValue(lead_data[t], "company_name")
        /\ HasValue(lead_data[t], "linkedin_url")
        /\ trace[t] = <<>>

\* C7: the returned outcome has enrichment_source None exactly when no adapter
\* called in that call returned a successful result (success=True from a
\* scraper, a non-empty mapping under enriched_data from the AI adapter).
C7_SourceNullIffNoSuccess ==
    \A t \in Tasks :
        Returned(t) =>
            /\ "enrichment_source" \in DOMAIN enriched[t]
            /\ (enriched[t]["enrichment_source"] = None) <=> AllMissed(t)

\* C7 witness: all three adapters were called, none succeeded.
C7_Witness ==
    \E t \in Tasks :
        /\ Returned(t)
        /\ Invoked(t, "ai_ark") /\ Invoked(t, "linkedin") /\ Invoked(t, "ai_enriched")
        /\ AllMissed(t)
        /\ enriched[t]["enrichment_source"] = None

\* C8: the returned outcome has a nonzero enrichment_cost only if the AI
\* adapter was called, and enrichment_cost is 0 when PRIMARY or NETWORK won.
C8_CostOnlyFromAI ==
    \A t \in Tasks :
        Returned(t) =>
            /\ ("enrichment_cost" \in DOMAIN enriched[t] /\ enriched[t]["enrichment_cost"] # 0)
                  => Invoked(t, "ai_enriched")
            /\ OutcomeSource(t) \in {"ai_ark", "linkedin"} =>
                  /\ "enrichment_cost" \in DOMAIN enriched[t]
                  /\ enriched[t]["enrichment_cost"] = 0

\* C9: no exception leaves enrich_lead, a call in progress can always take its
\* next step, and the outcome it returns contains the key enrichment_source.
C9_AlwaysReturnsOutcome ==
    \A t \in Tasks :
        /\ pc[t] # "raised"
        /\ InCall(t) => ENABLED (Step1(t) \/ Step2(t) \/ Step3(t) \/ TrackResults(t))
        /\ Returned(t) => "enrichment_source" \in DOMAIN enriched[t]

\* C9 witness: every source raised and the call returned.
C9_Witness ==
    \E t \in Tasks :
        /\ Returned(t)
        /\ Raised(t, "ai_ark") /\ Raised(t, "linkedin") /\ Raised(t, "ai_enriched")
        /\ "enrichment_source" \notin DOMAIN lead_data[t]

\* C10: in every step no counter of the pipeline decreases, and a step that
\* changes a counter is a step of an enrich_lead call in progress that adds
\* exactly what that call adds.
C10_CountersMonotone ==
    [][ /\ \A c \in Counters : stats'[c] >= stats[c]
        /\ stats' # stats =>
              \E t \in Tasks :
                  /\ InCall(t)
                  /\ \A c \in Counters : stats'[c] - stats[c] = delta'[t][c] - delta[t][c] ]_vars

\* C10 witness: two calls of one batch are in progress, each has already
\* added to a counter, and the total cost is positive.
C10_Witness ==
    \E t, u \in Tasks :
        /\ t # u
        /\ InCall(t) /\ InCall(u)
        /\ delta[t]["ai_ark_hits"] = 1
        /\ delta[u]["ai_finder_hits"] = 1
        /\ stats["total_cost"] > 0

\* C11: when PRIMARY raised without a result, the record has no linkedin_url
\* and the AI adapter returned a non-empty payload with cost c, the returned
\* outcome has enrichment_source "ai_enriched" and enrichment_cost c, and the
\* call added 1 to ai_finder_hits, c to total_cost, 1 to total_enriched and
\* nothing to failed or to the scrapers' hit counters.
C11_PrimaryRaisesAIWins ==
    \A t \in Tasks :
        ( /\ Returned(t)
          /\ Raised(t, "ai_ark") /\ ~Succeeded(t, "ai_ark")
          /\ ~HasValue(lead_data[t], "linkedin_url")
          /\ Succeeded(t, "ai_enriched") )
        => /\ OutcomeSource(t) = "ai_enriched"
           /\ "enrichment_cost" \in DOMAIN enriched[t]
           /\ enriched[t]["enrichment_cost"] = quoted[t]
           /\ delta[t] = [ZeroStats EXCEPT !["ai_finder_hits"] = 1,
                                            !["total_cost"] = quoted[t],
                                            !["total_enriched"] = 1]

\* C11 witness: the scenario with a cost of $0.0021, on a record that came in
\* with another enrichment_cost.
C11_Witness ==
    \E t \in Tasks :
        /\ Returned(t)
        /\ Raised(t, "ai_ark") /\ ~Succeeded(t, "ai_ark")
        /\ ~HasValue(lead_data[t], "linkedin_url")
        /\ Succeeded(t, "ai_enriched")
        /\ "enrichment_cost" \in DOMAIN lead_data[t]
        /\ quoted[t] = 2100
        /\ delta[t]["total_cost"] = 2100
        /\ enriched[t]["enrichment_cost"] = 2100

\* C12: on one RateLimiter, the times at which any two acquire() calls
\* returned are at least `interval` (60/R seconds) apart, whatever the
\* interleaving of the callers.
C12_GrantsSpaced ==
    \A i, j \in DOMAIN grants :
        i < j => grants[j] - grants[i] >= interval

\* C12 witness: two acquisitions were granted exactly one interval apart, the
\* second to a caller that had to sleep, while another caller queues for the
\* lock behind a third acquisition in progress.
C12_Witness ==
    /\ Len(grants) >= 2
    /\ grants[2] - grants[1] = interval
    /\ \E c, d \in Tasks : lpc[c] = "waiting" /\ lpc[d] = "sleeping" /\ wake[d] > now

\* ---- C13 .. C15
Failed(r) == r # "ok"
Transient(r) == r \in {"HTTPError", "TimeoutError"}
Last(seq) == seq[Len(seq)]
CountOf(seq, P(_)) == Cardinality({ i \in DOMAIN seq : P(seq[i]) })
IsOk(r) == r = "ok"
RequestDone(t) == rpc[t] = "done"

\* C13: one _make_request call makes at most 3 attempts; every attempt that
\* was followed by another one had failed with a request-layer error or a
\* timeout; a call whose last attempt failed raises to its caller, and only a
\* call whose last attempt succeeded returns a response.
C13_AtMostThreeAttempts ==
    \A t \in Tasks :
        /\ Len(tries[t]) <= 3
        /\ attempt[t] <= 3
        /\ \A i \in DOMAIN tries[t] : i < Len(tries[t]) => Transient(tries[t][i])
        /\ rpc[t] \in {"acquire", "sending"} =>
              \A i \in DOMAIN tries[t] : Transient(tries[t][i])
        /\ RequestDone(t) =>
              /\ Failed(Last(tries[t])) => outcome[t] \in {"RetryError", Last(tries[t])}
              /\ outcome[t] = "response" <=> IsOk(Last(tries[t]))
              /\ (Len(tries[t]) = 3 /\ Transient(tries[t][3])) => outcome[t] = "RetryError"

\* C13 witness: three attempts failed with request-layer errors and the call
\* raised.
C13_Witness ==
    \E t \in Tasks :
        /\ RequestDone(t)
        /\ tries[t] = <<"HTTPError", "TimeoutError", "HTTPError">>
        /\ outcome[t] = "RetryError"

InFlight == Cardinality({ t \in Tasks : rpc[t] = "sending" })

\* C14: every attempt adds one to total_requests, a failed one also one to
\* failed_requests and one message to errors, a successful one one to
\* successful_requests; so total_requests = successful_requests +
\* failed_requests (+ the attempts still in flight) and failed_requests is the
\* number of messages in errors.
C14_RequestCounters ==
    /\ rstats.total_requests = rstats.successful_requests + rstats.failed_requests + InFlight
    /\ rstats.failed_requests = Len(rstats.errors)
    /\ \A t \in Tasks :
          /\ rdelta[t]["total_requests"] = Len(tries[t]) + (IF rpc[t] = "sending" THEN 1 ELSE 0)
          /\ rdelta[t]["failed_requests"] = CountOf(tries[t], Failed)
          /\ rdelta[t]["errors"] = CountOf(tries[t], Failed)
          /\ rdelta[t]["successful_requests"] = CountOf(tries[t], IsOk)

\* C14 witness: two calls are over, one after a retry and one raised at once;
\* nothing is in flight.
C14_Witness ==
    \E t, u \in Tasks :
        /\ t # u
        /\ RequestDone(t) /\ RequestDone(u)
        /\ tries[t] = <<"TimeoutError", "ok">>
        /\ tries[u] = <<"RuntimeError">>
        /\ rstats.total_requests = 3
        /\ rstats.successful_requests = 1
        /\ Len(rstats.errors) = 2

\* C15: a call that failed transiently on attempts 1 and 2 and succeeded on
\* attempt 3 added 3 to total_requests, 2 to failed_requests and 1 to
\* successful_requests; the waits scheduled before attempts 2 and 3 are both
\* within [2 s, 30 s] and the second is not shorter than the first.
C15_TwoFailuresThenSuccess ==
    \A t \in Tasks :
        ( /\ RequestDone(t)
          /\ Len(tries[t]) = 3
          /\ Transient(tries[t][1]) /\ Transient(tries[t][2]) /\ IsOk(tries[t][3]) )
        => /\ rdelta[t]["total_requests"] = 3
           /\ rdelta[t]["failed_requests"] = 2
           /\ rdelta[t]["successful_requests"] = 1
           /\ Len(delays[t]) = 2
           /\ \A i \in 1 .. 2 : delays[t][i] >= 2 /\ delays[t][i] <= 30
           /\ delays[t][2] >= delays[t][1]

\* C15 witness: such a call has returned its response.
C15_Witness ==
    \E t \in Tasks :
        /\ RequestDone(t)
        /\ tries[t] = <<"HTTPError", "TimeoutError", "ok">>
        /\ outcome[t] = "response"
        /\ Len(delays[t]) = 2

\* ---- C16 .. C18
Started(t) == InCall(t) \/ pc[t] = "done"
Ended(t) == pc[t] \in {"finished", "threw"}

\* C16: during enrich_leads_batch the number of enrich_lead orchestrations
\* that have started and not yet finished never exceeds `concurrency`.
C16_ConcurrencyCap ==
    batch # "none" =>
        /\ Cardinality({ t \in Tasks : Started(t) }) <= concurrency
        /\ sem = concurrency - Cardinality({ t \in Tasks : Started(t) })

\* C16 witness: fewer slots than records, every slot taken by an orchestration
\* in progress, another record waiting.
C16_Witness ==
    /\ concurrency < NumTasks
    /\ Cardinality({ t \in Tasks : InCall(t) }) = concurrency
    /\ \E t \in Tasks : pc[t] = "queued"

\* C17: the list enrich_leads_batch returns has one outcome per input record,
\* and the outcome at position i is what the orchestration run on leads[i]
\* returned, whatever the order in which the orchestrations finished.
C17_ResultsInInputOrder ==
    /\ \A t \in Tasks : (batch # "none" /\ InCall(t)) => lead_data[t] = leads[t]
    /\ batch = "returned" =>
          /\ Len(batch_out) = Len(leads)
          /\ \A i \in DOMAIN leads : batch_out[i] = enriched[i]

\* C17 witness: a batch has returned whose last record finished first and
\* whose outcomes differ.
C17_Witness ==
    /\ batch = "returned"
    /\ order[1] = NumTasks
    /\ batch_out[1] # batch_out[NumTasks]
    /\ leads[1] # leads[NumTasks]

\* C18: an exception out of one record's orchestration is not raised to the
\* caller of enrich_leads_batch; the batch returns a list in which that
\* record's slot is a failed outcome and the siblings' outcomes are unchanged.
C18_ThrowIsIsolated ==
    /\ batch # "raised"
    /\ batch = "returned" =>
          \A i \in DOMAIN leads :
              IF pc[i] = "threw"
              THEN Get(batch_out[i], "enrichment_source") = None
              ELSE batch_out[i] = enriched[i]

\* ---- C19
RECURSIVE SumOver(_, _)
SumOver(seq, k) == IF seq = <<>> THEN 0 ELSE Head(seq)[k] + SumOver(Tail(seq), k)

RECURSIVE SumOfCallCosts(_, _)
SumOfCallCosts(m, seq) ==
    IF seq = <<>> THEN 0
    ELSE EstimateCostOf(m, Head(seq)[1], Head(seq)[2]) + SumOfCallCosts(m, Tail(seq))

\* C19: on one AILeadFinder, after completed API calls with usages (i1, o1),
\* (i2, o2), ... get_total_cost() is _estimate_cost(i1 + i2 + .., o1 + o2 + ..),
\* the estimate of the summed token counts; and get_total_cost() never
\* decreases from one call to the next.
C19_TotalCostOfSummedTokens ==
    /\ [](GetTotalCost = EstimateCostOf(model, SumOver(usages, 1), SumOver(usages, 2)))
    /\ [][usages' # <<>> => GetTotalCost' >= GetTotalCost]_vars

\* C19 witness: after two calls, then a third, on a Haiku model the total is
\* positive and is not the sum of the rounded costs of the calls.
C19_Witness ==
    /\ Len(usages) = 3
    /\ usages[1] # usages[2]
    /\ IsHaiku(model)
    /\ GetTotalCost > 0
    /\ GetTotalCost # SumOfCallCosts(model, usages)

\* C20: when the scope of an adapter session has been left, on whatever path
\* (normal exit, the body raising, the open step raising after the HTTP client
\* was created), its HTTP client and its browser are no longer open.
C20_ResourcesReleased ==
    \A t \in Tasks :
        spc[t] = "left" => (client[t] # "open" /\ browser[t] # "open")

\* C21: a scraper without its credentials does not outlive its construction:
\* the constructor raises, so no session of it is ever opened and no HTTP
\* client is created for it.
C21_ConfigErrorAtConstruction ==
    \A t \in Tasks :
        ~session[t].api_key =>
            /\ spc[t] \in {"unbuilt", "config_error"}
            /\ client[t] = "none"

\* ---- C24
Won(t) == source[t] # None

\* C24 (as claimed): the outcome holds every input key; every key of the
\* winning payload with the payload's value; every other input key with its
\* input value; and with no winner every input key with its input value.
C24_SupersetMerge ==
    \A t \in Tasks :
        Returned(t) =>
            /\ DOMAIN lead_data[t] \subseteq DOMAIN enriched[t]
            /\ Won(t) =>
                  /\ \A k \in DOMAIN payload[t] :
                        k \in DOMAIN enriched[t] /\ enriched[t][k] = payload[t][k]
                  /\ \A k \in DOMAIN lead_data[t] \ DOMAIN payload[t] :
                        enriched[t][k] = lead_data[t][k]
            /\ ~Won(t) =>
                  \A k \in DOMAIN lead_data[t] : enriched[t][k] = lead_data[t][k]

\* the keys enrich_lead writes itself, after the merge
OwnKeys(t) ==
    IF ~Won(t) THEN {"enrichment_source"}
    ELSE {"enrichment_source", "enrichment_cost"}
         \cup (IF source[t] = "ai_enriched"
               THEN {"alternate_emails", "alternate_companies", "ai_reasoning"}
               ELSE {})

\* C24 (amended): the outcome's keys are the input's, the winning payload's
\* and the keys enrich_lead writes itself (enrichment_source always,
\* enrichment_cost on a win, alternate_emails, alternate_companies and
\* ai_reasoning on an AI win); apart from those own keys, a key of the
\* winning payload has the payload's value and any other input key has its
\* input value; with no winner every input key but enrichment_source has
\* its input value.
C24_SupersetMergeButOwnKeys ==
    \A t \in Tasks :
        Returned(t) =>
            /\ DOMAIN enriched[t] =
                  DOMAIN lead_data[t] \cup DOMAIN payload[t] \cup OwnKeys(t)
            /\ ~Won(t) => payload[t] = EmptyDict
            /\ \A k \in DOMAIN payload[t] \ OwnKeys(t) :
                  enriched[t][k] = payload[t][k]
            /\ \A k \in DOMAIN lead_data[t] \ (DOMAIN payload[t] \cup OwnKeys(t)) :
                  enriched[t][k] = lead_data[t][k]

\* the AI adapter won on a record that was an earlier outcome: the payload
\* replaced the record's email, the record's company name was kept, and the
\* payload's own enrichment_source and ai_reasoning did not survive
C24_Witness ==
    \E t \in Tasks :
        /\ Returned(t)
        /\ source[t] = "ai_enriched"
        /\ "enrichment_cost" \in DOMAIN lead_data[t]
        /\ HasValue(lead_data[t], "company_name")
        /\ enriched[t]["company_name"] = lead_data[t]["company_name"]
        /\ enriched[t]["email"] = payload[t]["email"]
        /\ enriched[t]["email"] # lead_data[t]["email"]
        /\ enriched[t]["enrichment_source"] # payload[t]["enrichment_source"]
        /\ enriched[t]["ai_reasoning"] # payload[t]["ai_reasoning"]

\* ---- C25
\* what the calls in progress among tasks 1..n have added to counter c so far
RECURSIVE InProgress(_, _)
InProgress(n, c) ==
    IF n = 0 THEN 0
    ELSE (IF InCall(n) THEN delta[n][c] ELSE 0) + InProgress(n - 1, c)

\* counter c as the completed calls left it
Settled(c) == stats[c] - InProgress(NumTasks, c)

\* calls started that are neither in progress nor ended by an exception
Completed ==
    calls - Cardinality({ t \in Tasks : InCall(t) \/ pc[t] \in {"raised", "threw"} })

Outcomes == {"ai_ark_hits", "linkedin_hits", "ai_finder_hits", "failed"}

\* C25: counting what the completed calls added, total_enriched is the sum
\* of the three hit counters and total_enriched + failed is the number of
\* completed calls, in every order in which the calls of a batch run; with
\* no call in progress that is the content of stats itself.  A call that has
\* completed added 1 to exactly one of the three hit counters and failed.
C25_CountersAddUp ==
    /\ Settled("total_enriched") =
          Settled("ai_ark_hits") + Settled("linkedin_hits") + Settled("ai_finder_hits")
    /\ Settled("total_enriched") + Settled("failed") = Completed
    /\ (\A t \in Tasks : ~InCall(t)) =>
          /\ stats["total_enriched"] =
                stats["ai_ark_hits"] + stats["linkedin_hits"] + stats["ai_finder_hits"]
          /\ stats["total_enriched"] + stats["failed"] = Completed
    /\ \A t \in Tasks :
          Returned(t) =>
              /\ \E c \in Outcomes : delta[t][c] = 1
              /\ \A c, d \in Outcomes : (delta[t][c] # 0 /\ delta[t][d] # 0) => c = d

\* the batch has returned with one record enriched and one not, the calls
\* having overlapped (the second started before the first finished)
C25_Witness ==
    /\ batch = "returned"
    /\ concurrency > 1
    /\ stats["total_enriched"] = 1
    /\ stats["failed"] >= 1
    /\ Completed = NumTasks

VariantInFlight == vpc \in {"fetching", "searching", "detailing"}

\* C28: on an adapter that counts its requests itself (the place search and
\* place details of GoogleMapsScraper, the page fetch of WebsiteScraper),
\* whenever no request is in flight total_requests is successful_requests +
\* failed_requests.
C28_VariantCountersAddUp ==
    ~VariantInFlight =>
        vstats.total_requests = vstats.successful_requests + vstats.failed_requests

\* ---- C27
\* C27: every request sent through _make_request, by a first attempt or by
\* a retry, was sent at the return of an acquire() of its own on the
\* adapter's RateLimiter, and any two requests of the adapter were sent at
\* least `interval` apart.
C27_EveryAttemptThrottled ==
    /\ Len(sent) <= Len(grants)
    /\ \A i \in DOMAIN sent : sent[i] = grants[i]
    /\ rstats.total_requests = Len(sent)
    /\ \A i, j \in DOMAIN sent : i < j => sent[j] - sent[i] >= interval

\* a call sent its first request, failed, and its retry was sent exactly one
\* interval later while a request of the other caller was in flight
C27_Witness ==
    \E t, u \in Tasks :
        /\ t # u
        /\ Len(tries[t]) >= 1
        /\ attempt[t] >= 2
        /\ rpc[t] = "sending"
        /\ rpc[u] = "sending"
        /\ Len(sent) >= 3
        /\ interval > 1
        /\ sent[Len(sent)] - sent[Len(sent) - 1] = interval

\* ---- C30
BatchEnded == batch \in {"returned", "raised"}
SlotsTaken == Cardinality({ t \in Tasks : InCall(t) \/ pc[t] = "done" })

\* C30: a batch call ends for every list and every concurrency value, no
\* orchestration stays queued on the semaphore for ever, and the slots taken
\* are exactly those of the orchestrations in progress, so that each is
\* given back when its orchestration finishes.
C30_BatchTerminates ==
    /\ <>BatchEnded
    /\ \A t \in Tasks : (pc[t] = "queued") ~> (pc[t] # "queued")
    /\ [](sem + SlotsTaken = concurrency)

\* ---- C23
Quiescent == \A t \in Tasks : fpc[t] \in {"idle", "done", "raised"}
RaisesIn(t) == fpc[t] = "create" /\ fpc'[t] = "raised"

\* C23: whenever no orchestration is inside an API call, the totals of the
\* shared AILeadFinder are the sums of the input and of the output tokens of
\* the API calls that returned a response, whatever the order in which the
\* tasks ran; and the step in which an API call raises leaves the totals as
\* they were.
C23_NoLostUpdate ==
    /\ [](Quiescent =>
            /\ total_input_tokens = SumOver(usages, 1)
            /\ total_output_tokens = SumOver(usages, 2))
    /\ [][\A t \in Tasks : RaisesIn(t) =>
            /\ total_input_tokens' = total_input_tokens
            /\ total_output_tokens' = total_output_tokens
            /\ usages' = usages]_vars

\* both tasks have received a response with tokens, one API call has raised,
\* and the totals exceed what either response carried
C23_Witness ==
    /\ Quiescent
    /\ \A t \in Tasks : fpc[t] = "done" /\ reply[t][1] > 0
    /\ Len(usages) = NumTasks
    /\ ai_raised > 0
    /\ \A t \in Tasks : total_input_tokens > reply[t][1]

\* ---- C22
Bad(it) == it = "bad"
IsFailure(r) == ~r.success
IsSuccess(r) == r.success
ParsedItems == scpc = "returned" /\ (job = "items" \/ (job = "snapshot" /\ poll_log # <<>> /\ Last(poll_log) = "ready"))

\* C22: when scrape() has returned from a response of n items of which k
\* failed to parse, the returned sequence holds one failed result per bad
\* item and n - k successful ones, and stats.errors holds a message per bad
\* item.
C22_BadItemsBecomeFailedResults ==
    ParsedItems =>
        /\ Len(found) = Len(items)
        /\ CountOf(found, IsFailure) = CountOf(items, Bad)
        /\ CountOf(found, IsSuccess) = Len(items) - CountOf(items, Bad)
        /\ Len(scrape_errors) = CountOf(items, Bad)

\* ---- C29
Swallowed(o) == o \in {"pending", "raise"}

PollSafety ==
    /\ Len(poll_log) <= max_attempts
    /\ (scpc = "returned" /\ job = "snapshot") =>
          \/ /\ poll_log # <<>>
             /\ Last(poll_log) = "ready"
             /\ found = ParseFrom(items, 1)
          \/ /\ poll_log # <<>>
             /\ Last(poll_log) = "failed"
             /\ Len(found) = 1
             /\ ~found[1].success
          \/ /\ Len(poll_log) = max_attempts
             /\ \A i \in DOMAIN poll_log : Swallowed(poll_log[i])
             /\ found = <<FailedResult("Polling timeout")>>

\* C29: _poll_for_results makes at most max_attempts polls, a raising poll
\* being one of them, and always returns: the parsed results after a ready
\* poll, one failed result after a failed poll, and the one failed result
\* 'Polling timeout' once max_attempts polls were neither.
C29_PollingTerminates ==
    /\ []PollSafety
    /\ (scpc = "polling") ~> (scpc = "returned")

\* all max_attempts polls were made, one of them raised, and the call
\* returned the timeout result
C29_Witness ==
    /\ scpc = "returned"
    /\ max_attempts >= 2
    /\ Len(poll_log) = max_attempts
    /\ \E i \in DOMAIN poll_log : poll_log[i] = "raise"
    /\ found = <<FailedResult("Polling timeout")>>

====
